---------------------------- MODULE Spec2Model ----------------------------
(***************************************************************************)
(* A model of the SCP MCP wrapper: endpoint discovery with its cache       *)
(* (discovery/dns-lookup.ts, storage/database-sqljs.ts), the token         *)
(* lifecycle (auth/token-manager.ts, auth/oauth-client.ts,                 *)
(* storage/encryption.ts) and the authorize tool handler (server.ts).      *)
(*                                                                         *)
(* Every tool call is a process.  A process yields only where the code     *)
(* awaits the network (DNS, fetch): the awaits of the already opened       *)
(* sql.js database resolve without I/O and are folded into the step that   *)
(* issues them.  Time is Date.now() in milliseconds.                       *)
(***************************************************************************)
EXTENDS Integers, Sequences, FiniteSets, TLC

VARIABLES
  now,           \* Date.now(), milliseconds
  ticks,         \* how often the clock has advanced (bounded by MaxTicks)
  testEndpoint,  \* process.env.SCP_TEST_ENDPOINT, or None
  demoMode,      \* config.demo_mode
  max_poll_attempts, \* config.max_poll_attempts
  cache,         \* table endpoint_cache, by domain
  auths,         \* table merchant_authorizations, by domain
  masterKey,     \* masterKeyCache: the key encryptToken and decryptToken use, or null
  issued,        \* number of token pairs the token endpoint has issued
  pc,            \* each call's position
  loc,           \* each call's local variables
  sqlJs,         \* database-sqljs.ts: whether the module variable sqlJs is set
  db,            \* database-sqljs.ts: the module variable db, a handle or null
  handles,       \* the sql.js databases created so far, in memory
  disk,          \* the file tokens.db: the image last written, or no file
  server         \* index.ts: "down", "started" or "exited"

vars == <<now, ticks, testEndpoint, demoMode, max_poll_attempts, cache, auths, masterKey, issued, pc, loc,
          sqlJs, db, handles, disk, server>>

clock == <<now, ticks>>
config == <<testEndpoint, demoMode, max_poll_attempts>>
\* the database module's own state and the file
storage == <<sqlJs, db, handles, disk>>
\* what no tool call changes: the key, the open database, the running server
fixed == <<masterKey, storage, server>>

None == "none"

\* an optional row or object is a set with at most one element
Absent == {}
Some(x) == {x}
The(s) == CHOOSE x \in s : TRUE

----------------------------------------------------------------------------
(* Bounds of the model *)

\* the clock advances at most this often
MaxTicks == 2
\* the token endpoint issues at most this many token pairs
MaxIssue == 2
\* a poll sequence holds at most this many non-terminal answers
MaxPending == 2
MaxTxtLen == 4
\* longest token string encrypted
MaxTextLen == 3
\* the number of distinct initialisation vectors randomBytes can return
NumIV == 2

Procs == {"p1", "p2"}
Domains == {"a.com", "b.com"}
\* the master keys getMasterKey can have generated
Keys == {3}

----------------------------------------------------------------------------
(* Program constants *)

\* ttl: 86400 (seconds) written with every cache entry
CACHE_TTL == 86400
\* getCachedEndpoint compares the age in ms with ttl * 1000
MS_PER_SEC == 1000
\* TOKEN_REFRESH_THRESHOLD, milliseconds
TOKEN_REFRESH_THRESHOLD == 300000
\* maxPollAttempts of completeAuthorizationFlow and maxAttempts of
\* pollAuthorization, which handleAuthorize leaves at their default
DEFAULT_MAX_POLL_ATTEMPTS == 150

DemoEndpoint == "https://demo"
TestEndpointValue == "https://test"

\* the lifetimes (expires_in, seconds) the token endpoint reports
Lifetimes == {60, TOKEN_REFRESH_THRESHOLD \div MS_PER_SEC, 3600}
IVs == 0 .. (NumIV - 1)

\* An email address as its pieces: local part, then the labels of its host.
Emails == {<<"u", "shop", "io">>, <<"v", "shop", "io">>, <<"x", "example", "com">>}
\* A scope list: the array of a request, or scope.split(' ') of a response.
ScopeLists == {<<"orders">>, <<"orders", "loyalty">>, <<"loyalty", "orders">>}

----------------------------------------------------------------------------
(* Crypto engine: tokens are numbers below TokMod; the cipher adds a key      *)
(* stream derived from the key and the iv, the tag authenticates iv and data. *)

TokMod == 2 * MaxIssue + 2
KeyStream(k, iv) == ((k + iv) % (TokMod - 1)) + 1
Mac(k, iv, data) == (k + 2 * iv + 3 * data) % TokMod

\* encryptToken that puts the token into the envelope as it is
EncryptTokenPlain(t, iv) == [iv |-> iv, data |-> t, tag |-> 0]

\* encryptToken with the iv randomBytes returned: the envelope {iv, data, tag}
EncryptToken(t, iv) ==
  LET data == (t + KeyStream(The(masterKey), iv)) % TokMod
  IN [iv |-> iv, data |-> data, tag |-> Mac(The(masterKey), iv, data)]

\* decryptToken: the plaintext, or a throw when the tag does not verify
DecryptToken(env) ==
  IF env.tag = Mac(The(masterKey), env.iv, env.data)
    THEN [ok |-> TRUE, token |-> (env.data + TokMod - KeyStream(The(masterKey), env.iv)) % TokMod]
    ELSE [ok |-> FALSE, token |-> 0]

(* The same two functions on token strings.  A string is a sequence of       *)
(* UTF-16 code units: "a" a letter, "HS" and "LS" a high and a low           *)
(* surrogate, "FFFD" the replacement character.  cipher.update(token,        *)
(* 'utf8') encodes it: a surrogate pair is one scalar, a surrogate without   *)
(* its partner is encoded as U+FFFD.                                         *)
Units == {"a", "HS", "LS", "FFFD"}
Scalars == <<"a", "FFFD", "PAIR">>
Texts == UNION {[1 .. n -> Units] : n \in 0 .. MaxTextLen}

ScalarNo(x) == CHOOSE i \in 1 .. Len(Scalars) : Scalars[i] = x

RECURSIVE Utf8(_)
Utf8(T) ==
  IF T = <<>> THEN <<>>
  ELSE IF Len(T) > 1 /\ T[1] = "HS" /\ T[2] = "LS"
         THEN <<ScalarNo("PAIR") - 1>> \o Utf8(SubSeq(T, 3, Len(T)))
       ELSE IF T[1] \in {"HS", "LS"}
         THEN <<ScalarNo("FFFD") - 1>> \o Utf8(Tail(T))
       ELSE <<ScalarNo(T[1]) - 1>> \o Utf8(Tail(T))

\* Buffer.toString('utf8') of bytes that encode scalars
RECURSIVE ToStringUtf8(_)
ToStringUtf8(bytes) ==
  IF bytes = <<>> THEN <<>>
  ELSE (IF Scalars[bytes[1] + 1] = "PAIR" THEN <<"HS", "LS">> ELSE <<Scalars[bytes[1] + 1]>>)
       \o ToStringUtf8(Tail(bytes))

\* cipher.update / decipher.update: the key stream added to, taken from, each byte
ByteStream(k, iv) == (k + iv + 1) % Len(Scalars)
CipherUpdate(bytes, k, iv) ==
  [i \in 1 .. Len(bytes) |-> (bytes[i] + ByteStream(k, iv)) % Len(Scalars)]
DecipherUpdate(data, k, iv) ==
  [i \in 1 .. Len(data) |-> (data[i] + Len(Scalars) - ByteStream(k, iv)) % Len(Scalars)]

\* cipher.getAuthTag(): GCM's tag, one for each key, iv and ciphertext
GetAuthTag(k, iv, data) == <<k, iv, data>>

\* encryptToken on a string
EncryptText(T, iv) ==
  LET data == CipherUpdate(Utf8(T), The(masterKey), iv)
  IN [iv |-> iv, data |-> data, tag |-> GetAuthTag(The(masterKey), iv, data)]

\* decryptToken that returns whatever decipher.update produced
DecryptTextUnverified(env) ==
  [ok |-> TRUE, text |-> ToStringUtf8(DecipherUpdate(env.data, The(masterKey), env.iv))]

\* decryptToken on an envelope: decipher.final() throws unless the tag verifies
DecryptText(env) ==
  IF env.tag = GetAuthTag(The(masterKey), env.iv, env.data)
    THEN [ok |-> TRUE, text |-> ToStringUtf8(DecipherUpdate(env.data, The(masterKey), env.iv))]
    ELSE [ok |-> FALSE, text |-> <<>>]

----------------------------------------------------------------------------
(* Credential store: merchant_authorizations *)

\* a mutant: the update inserts a row when the domain has none
UpdateAuthorizationTokensOrInsert(a, d, acc, ref, exp, t) ==
  IF a[d] = Absent
    THEN [a EXCEPT ![d] = Some([endpoint |-> "https://old", customer_id |-> "cust",
                                customer_email |-> <<>>,
                                access_token_encrypted |-> acc,
                                refresh_token_encrypted |-> ref,
                                expires_at |-> exp, scopes |-> <<>>,
                                created_at |-> t, updated_at |-> t])]
  ELSE [a EXCEPT ![d] = Some([The(a[d]) EXCEPT !.access_token_encrypted = acc,
                                               !.refresh_token_encrypted = ref,
                                               !.expires_at = exp,
                                               !.updated_at = t])]

\* a mutant: the update also sets created_at
UpdateAuthorizationTokensAndCreated(a, d, acc, ref, exp, t) ==
  IF a[d] = Absent THEN a
  ELSE [a EXCEPT ![d] = Some([The(a[d]) EXCEPT !.access_token_encrypted = acc,
                                               !.refresh_token_encrypted = ref,
                                               !.expires_at = exp,
                                               !.created_at = t,
                                               !.updated_at = t])]

\* UPDATE ... SET tokens, expires_at, updated_at WHERE merchant_domain = d
UpdateAuthorizationTokens(a, d, acc, ref, exp, t) ==
  IF a[d] = Absent THEN a
  ELSE [a EXCEPT ![d] = Some([The(a[d]) EXCEPT !.access_token_encrypted = acc,
                                               !.refresh_token_encrypted = ref,
                                               !.expires_at = exp,
                                               !.updated_at = t])]

\* the token endpoint's n-th pair of tokens
AccessTokenNo(n) == 2 * n
RefreshTokenNo(n) == 2 * n + 1

----------------------------------------------------------------------------
(* Endpoint store: endpoint_cache *)

CacheRows ==
  [endpoint : {"https://old"}, capabilities : {Absent}, discovered_at : {0}, ttl : {CACHE_TTL}]

\* INSERT ... ON CONFLICT(domain) DO UPDATE; ttl is cache.ttl || 86400
CacheEndpoint(c, d, row) ==
  [c EXCEPT ![d] = Some([endpoint      |-> row.endpoint,
                         capabilities  |-> row.capabilities,
                         discovered_at |-> row.discovered_at,
                         ttl           |-> IF row.ttl = 0 THEN CACHE_TTL ELSE row.ttl])]

\* a mutant: the expiry check is missing
GetCachedEndpointNoExpiry(c, d, t) == c[d]

\* the row of d, or None when there is none or its age exceeds ttl seconds
GetCachedEndpoint(c, d, t) ==
  IF c[d] = Absent THEN Absent
  ELSE IF t - The(c[d]).discovered_at > The(c[d]).ttl * MS_PER_SEC THEN Absent
  ELSE c[d]

----------------------------------------------------------------------------
(* Discovery *)

Order == <<"override", "demo", "cache", "dns", "wellknown", "header">>

Entry(s, h) == [src |-> s, hit |-> h]

\* a mutant: the cache is consulted before the demo-mode switch
SyncChainCacheFirst(d) ==
  IF testEndpoint # None
    THEN [log |-> <<Entry("override", TRUE)>>, ep |-> testEndpoint]
  ELSE IF GetCachedEndpoint(cache, d, now) # Absent
    THEN [log |-> <<Entry("override", FALSE), Entry("cache", TRUE)>>,
          ep  |-> The(GetCachedEndpoint(cache, d, now)).endpoint]
  ELSE IF demoMode
    THEN [log |-> <<Entry("override", FALSE), Entry("cache", FALSE), Entry("demo", TRUE)>>,
          ep  |-> DemoEndpoint]
  ELSE [log |-> <<Entry("override", FALSE), Entry("cache", FALSE), Entry("demo", FALSE)>>,
        ep  |-> None]

\* discoverSCPEndpoint up to its first network request: the override, demo
\* mode, the cache
SyncChain(d) ==
  IF testEndpoint # None
    THEN [log |-> <<Entry("override", TRUE)>>, ep |-> testEndpoint]
  ELSE IF demoMode
    THEN [log |-> <<Entry("override", FALSE), Entry("demo", TRUE)>>, ep |-> DemoEndpoint]
  ELSE IF GetCachedEndpoint(cache, d, now) # Absent
    THEN [log |-> <<Entry("override", FALSE), Entry("demo", FALSE), Entry("cache", TRUE)>>,
          ep  |-> The(GetCachedEndpoint(cache, d, now)).endpoint]
  ELSE [log |-> <<Entry("override", FALSE), Entry("demo", FALSE), Entry("cache", FALSE)>>,
        ep  |-> None]

\* A TXT record after record.join(''): whether it starts with v=scp1, and the
\* https url of its endpoint= token (None when it has none).
TxtRecords == [v1 : BOOLEAN, ep : {None, "https://dns1", "https://dns2"}]
TxtLists == {<<>>} \cup {<<r>> : r \in TxtRecords}
              \cup {<<r, s>> : r \in TxtRecords, s \in TxtRecords}
DnsResponses ==
  {[kind |-> "records", recs |-> rs, code |-> None] : rs \in TxtLists}
    \cup {[kind |-> "error", recs |-> <<>>, code |-> c] :
            c \in {"ENOTFOUND", "ENODATA", "ETIMEOUT"}}

RECURSIVE FirstAccepted(_)
\* the for loop of tryDNSDiscovery: the first record that is accepted
FirstAccepted(recs) ==
  IF recs = <<>> THEN None
  ELSE IF Head(recs).v1 /\ Head(recs).ep # None THEN Head(recs).ep
  ELSE FirstAccepted(Tail(recs))

\* a mutant: every resolver error is a miss
TryDNSDiscoveryLenient(resp) ==
  IF resp.kind = "records"
    THEN [throws |-> FALSE, ep |-> FirstAccepted(resp.recs)]
    ELSE [throws |-> FALSE, ep |-> None]

\* tryDNSDiscovery on a resolver answer: an endpoint, None, or a throw
TryDNSDiscovery(resp) ==
  IF resp.kind = "records"
    THEN [throws |-> FALSE, ep |-> FirstAccepted(resp.recs)]
  ELSE IF resp.code = "ENOTFOUND" \/ resp.code = "ENODATA"
    THEN [throws |-> FALSE, ep |-> None]
  ELSE [throws |-> TRUE, ep |-> None]

\* The well-known GET: a network error, or a status and the body's endpoint
\* field (None when it is missing, empty or no string).
WkResponses ==
  {[neterr |-> TRUE, ok |-> FALSE, endpoint |-> None]}
    \cup [neterr : {FALSE}, ok : BOOLEAN, endpoint : {None, "https://wk"}]

TryWellKnown(resp) ==
  IF ~resp.neterr /\ resp.ok /\ resp.endpoint # None THEN resp.endpoint ELSE None

\* The HEAD request: a network error, or the SCP-Endpoint header (None when
\* absent); the status is not looked at.
HeadResponses ==
  {[neterr |-> TRUE, header |-> None]}
    \cup [neterr : {FALSE}, header : {None, "https://hdr"}]

TryHeader(resp) ==
  IF ~resp.neterr /\ resp.header # None THEN resp.header ELSE None

\* GET <endpoint>/capabilities: a failure, or the descriptor (Absent for a
\* JSON null) with its scopes_supported (has_list is FALSE when it has none).
ScopeNames == {"orders", "loyalty"}
Capabilities ==
  {[has_list |-> FALSE, scopes_supported |-> {}]}
    \cup [has_list : {TRUE}, scopes_supported : {{"orders"}, {"orders", "loyalty"}}]
CapsResponses ==
  {[ok |-> FALSE, caps |-> Absent]}
    \cup [ok : {TRUE}, caps : {Some(c) : c \in Capabilities} \cup {Absent}]

----------------------------------------------------------------------------
(* The database module (storage/database-sqljs.ts) at the level of its      *)
(* statements: a sql.js database is its three tables, each a set of rows,   *)
(* and the AUTOINCREMENT counters.  The tool handlers further down run on   *)
(* the one database the start-up opened and keep its two domain-keyed       *)
(* tables in auths and cache.                                               *)

\* new SQL.Database()
NewDatabase ==
  [schema |-> FALSE, auths |-> {}, cache |-> {}, keys |-> {}, authSeq |-> 0, cacheSeq |-> 0]

\* CREATE TABLE IF NOT EXISTS ...
InitializeSchema(D) == [D EXCEPT !.schema = TRUE]

\* INSERT INTO merchant_authorizations ... without the ON CONFLICT clause
InsertAuthorization(D, auth) ==
  [D EXCEPT !.auths = @ \cup {[id |-> D.authSeq + 1] @@ auth}, !.authSeq = @ + 1]

\* storeAuthorization's statement: INSERT ... ON CONFLICT(merchant_domain) DO UPDATE SET
\* every column but merchant_domain and created_at
UpsertAuthorization(D, auth) ==
  IF \E r \in D.auths : r.merchant_domain = auth.merchant_domain
    THEN [D EXCEPT !.auths =
            {IF r.merchant_domain = auth.merchant_domain
               THEN [id |-> r.id] @@ [auth EXCEPT !.created_at = r.created_at]
               ELSE r : r \in @}]
    ELSE [D EXCEPT !.auths = @ \cup {[id |-> D.authSeq + 1] @@ auth}, !.authSeq = @ + 1]

\* updateAuthorizationTokens' statement: UPDATE ... WHERE merchant_domain = ?
UpdateTokensWhere(D, d, acc, ref, exp, t) ==
  [D EXCEPT !.auths =
     {IF r.merchant_domain = d
        THEN [r EXCEPT !.access_token_encrypted = acc, !.refresh_token_encrypted = ref,
                       !.expires_at = exp, !.updated_at = t]
        ELSE r : r \in @}]

\* deleteAuthorization's statement: DELETE ... WHERE merchant_domain = ?
DeleteWhere(D, d) == [D EXCEPT !.auths = {r \in @ : r.merchant_domain # d}]

\* cacheEndpoint's statement: INSERT ... ON CONFLICT(domain) DO UPDATE SET
\* endpoint, capabilities, discovered_at, ttl
UpsertEndpoint(D, c) ==
  IF \E r \in D.cache : r.domain = c.domain
    THEN [D EXCEPT !.cache = {IF r.domain = c.domain THEN [id |-> r.id] @@ c ELSE r : r \in @}]
    ELSE [D EXCEPT !.cache = @ \cup {[id |-> D.cacheSeq + 1] @@ c}, !.cacheSeq = @ + 1]

\* storeEncryptionKey's statement: INSERT ... VALUES (1, ?, ?) ON CONFLICT(id) DO UPDATE SET
UpsertKey(D, k, t) == [D EXCEPT !.keys = {[id |-> 1, key_encrypted |-> k, created_at |-> t]}]

\* getEncryptionKey's statement: SELECT key_encrypted FROM encryption_keys WHERE id = 1
SelectKey(D) == {r.key_encrypted : r \in D.keys}

\* the module state once getDatabase has returned for the first time
Opened ==
  /\ sqlJs = TRUE
  /\ db = Some(1)
  /\ handles = <<InitializeSchema(NewDatabase)>>
  /\ disk = Some(InitializeSchema(NewDatabase))

----------------------------------------------------------------------------
(* The calls *)

InitLoc ==
  [op       |-> None,     \* the operation called
   dom      |-> None,     \* its domain
   log      |-> <<>>,     \* the discovery sources consulted, with their outcome
   dnsCode  |-> None,     \* the resolver's answer: "records" or its error code
   txt      |-> <<>>,     \* tryDNSDiscovery: the TXT records the resolver returned
   ep       |-> None,     \* discoverSCPEndpoint's endpoint
   capsOk   |-> None,     \* how the capability request ended: "ok" or "failed"
   caps     |-> Absent,   \* the capability descriptor
   cacheRow |-> Absent,   \* the endpoint_cache row getCachedEndpoint found
   cacheAt  |-> 0,        \* Date.now() when it looked
   nNet     |-> 0,        \* network requests sent by this call
   auth     |-> Absent,   \* getValidAccessToken: the row it read
   checkedAt |-> 0,       \* Date.now() of its expiry check
   presented |-> Absent,  \* the refresh token it sent to the token endpoint
   nRefresh |-> 0,        \* refresh requests sent by this call
   nWrites  |-> 0,        \* store writes made by this call
   refresh  |-> None,     \* how its refresh request ended: "ok" or "failed"
   lifetime |-> 0,        \* expires_in of the refresh response
   updated  |-> Absent,   \* the row it read again after the refresh
   email    |-> <<>>,     \* handleAuthorize: the email argument
   scopes   |-> <<>>,     \* the scopes argument
   existing |-> Absent,   \* what it uses of the row it read at its start
   maxAttempts |-> 0,     \* pollAuthorization: maxAttempts
   attempts |-> 0,        \* pollAuthorization: attempts, one per interval waited
   polls    |-> 0,        \* poll requests sent
   seen     |-> <<>>,     \* the poll answers received, in order
   code     |-> None,     \* the authorization code a poll returned
   granted  |-> <<>>,     \* the scope of the token response
   revokes  |-> 0,        \* handleRevokeAuthorization: revocation requests sent
   revokeTo |-> None,     \* the endpoint they were sent to
   remote   |-> None,     \* how the revocation request ended: "ok" or "failed"
   info     |-> Absent,   \* handleCheckAuthorization: what getAuthorizationInfo returned
   caller   |-> None,     \* the function that called the store function op names
   arg      |-> Absent,   \* a store function's argument
   database |-> Absent,   \* the handle getDatabase returned to it
   key      |-> Absent,   \* getMasterKey: the key record read, the key generated
   test     |-> Absent,   \* main: what testEncryption returned
   calls    |-> 0,        \* calls this caller has completed
   text     |-> <<>>,     \* encryptToken: the token string
   envelope |-> Absent,   \* the envelope it returned, as decryptToken is given it
   altered  |-> None,     \* what was altered in it since: "data", "tag" or nothing
   plain    |-> Absent,   \* what decryptToken returned
   aborted  |-> FALSE,    \* the caller has cancelled the request since it began
   reported |-> Absent,   \* what else the refresh response reported
   bearer   |-> Absent,   \* a data tool: the token its request carries
   pkce     |-> 0,        \* the verifier generatePKCE draws for this call
   verifier |-> 0,        \* initiateAuthorization: codeVerifier, once drawn
   challenge |-> 0,       \* code_challenge of the initiation request, once sent
   sentCode |-> None,     \* code of the exchange request, once sent
   sentVerifier |-> 0,    \* code_verifier of the exchange request
   result   |-> [kind |-> None, value |-> None]]  \* what the call returned or threw

Done(l, kind, value) == [l EXCEPT !.result = [kind |-> kind, value |-> value]]

\* discoverSCPEndpoint has returned endpoint ep (not null) to its caller:
\* discoverWithCapabilities sends the capability request
AfterResolved(l) ==
  IF l.op = "resolve"
    THEN [pc |-> "done", loc |-> Done(l, "endpoint", l.ep)]
    ELSE [pc |-> "d_caps", loc |-> [l EXCEPT !.nNet = @ + 1]]

\* discoverSCPEndpoint has returned null: discoverWithCapabilities returns
\* null too, and handleAuthorize throws (server.ts:672-674)
AfterNotFound(l) ==
  IF l.op = "authorize"
    THEN [pc |-> "done", loc |-> Done(l, "error", "Could not discover")]
    ELSE [pc |-> "done", loc |-> Done(l, "notfound", None)]

\* lines 15-37: the synchronous chain of a call with locals l0, then the DNS
\* query
BeginDiscovery(l0) ==
  LET r == SyncChain(l0.dom)
      l == [l0 EXCEPT !.log = r.log, !.ep = r.ep,
                      !.cacheRow = IF r.log[Len(r.log)].src = "cache"
                                     THEN cache[l0.dom] ELSE Absent,
                      !.cacheAt = now]
  IN IF r.ep # None
       THEN AfterResolved(l)
       ELSE [pc |-> "d_dns",
             loc |-> [l EXCEPT !.log = Append(@, Entry("dns", FALSE)), !.nNet = @ + 1]]

\* a discoverSCPEndpoint or discoverWithCapabilities call (handleDiscover)
DiscStart(p, d, op) ==
  /\ pc[p] = "idle"
  /\ LET b == BeginDiscovery([InitLoc EXCEPT !.op = op, !.dom = d])
     IN /\ pc' = [pc EXCEPT ![p] = b.pc]
        /\ loc' = [loc EXCEPT ![p] = b.loc]
  /\ UNCHANGED <<clock, config, fixed, cache, auths, issued>>

\* the row discoverSCPEndpoint caches after a DNS or fallback hit
FreshRow(ep, caps) ==
  [endpoint |-> ep, capabilities |-> caps, discovered_at |-> now, ttl |-> CACHE_TTL]

HitLast(log) == [log EXCEPT ![Len(log)] = Entry(log[Len(log)].src, TRUE)]

\* lines 37-50: the resolver answers
DiscDns(p) ==
  /\ pc[p] = "d_dns"
  /\ \E resp \in DnsResponses :
       LET r == TryDNSDiscovery(resp)
           l == [loc[p] EXCEPT !.dnsCode =
                   IF resp.kind = "records" THEN "records" ELSE resp.code]
       IN IF r.throws
            THEN /\ pc' = [pc EXCEPT ![p] = "done"]
                 /\ loc' = [loc EXCEPT ![p] = Done(l, "error", "dns")]
                 /\ cache' = cache
          ELSE IF r.ep # None
            THEN LET l2 == [l EXCEPT !.log = HitLast(@), !.ep = r.ep]
                 IN /\ cache' = CacheEndpoint(cache, l.dom, FreshRow(r.ep, Absent))
                    /\ pc' = [pc EXCEPT ![p] = AfterResolved(l2).pc]
                    /\ loc' = [loc EXCEPT ![p] = AfterResolved(l2).loc]
          ELSE /\ pc' = [pc EXCEPT ![p] = "d_wk"]
               /\ loc' = [loc EXCEPT ![p] =
                            [l EXCEPT !.log = Append(@, Entry("wellknown", FALSE)),
                                      !.nNet = @ + 1]]
               /\ cache' = cache
  /\ UNCHANGED <<clock, config, fixed, auths, issued>>

\* lines 104-126, 52-62: the well-known GET answers
DiscWellKnown(p) ==
  /\ pc[p] = "d_wk"
  /\ \E resp \in WkResponses :
       LET e == TryWellKnown(resp)
           l == loc[p]
       IN IF e # None
            THEN LET l2 == [l EXCEPT !.log = HitLast(@), !.ep = e]
                 IN /\ cache' = CacheEndpoint(cache, l.dom, FreshRow(e, Absent))
                    /\ pc' = [pc EXCEPT ![p] = AfterResolved(l2).pc]
                    /\ loc' = [loc EXCEPT ![p] = AfterResolved(l2).loc]
            ELSE /\ pc' = [pc EXCEPT ![p] = "d_head"]
                 /\ loc' = [loc EXCEPT ![p] =
                              [l EXCEPT !.log = Append(@, Entry("header", FALSE)),
                                        !.nNet = @ + 1]]
                 /\ cache' = cache
  /\ UNCHANGED <<clock, config, fixed, auths, issued>>

\* lines 127-143, 52-64: the HEAD request answers
DiscHeader(p) ==
  /\ pc[p] = "d_head"
  /\ \E resp \in HeadResponses :
       LET e == TryHeader(resp)
           l == loc[p]
       IN IF e # None
            THEN LET l2 == [l EXCEPT !.log = HitLast(@), !.ep = e]
                 IN /\ cache' = CacheEndpoint(cache, l.dom, FreshRow(e, Absent))
                    /\ pc' = [pc EXCEPT ![p] = AfterResolved(l2).pc]
                    /\ loc' = [loc EXCEPT ![p] = AfterResolved(l2).loc]
            ELSE /\ pc' = [pc EXCEPT ![p] = AfterNotFound(l).pc]
                 /\ loc' = [loc EXCEPT ![p] = AfterNotFound(l).loc]
                 /\ cache' = cache
  /\ UNCHANGED <<clock, config, fixed, auths, issued>>

\* a mutant: no requested scope counts as unsupported
UnsupportedNone(scopes, caps) == <<>>

\* server.ts:680: the requested scopes the descriptor does not list
Unsupported(scopes, caps) ==
  SelectSeq(scopes, LAMBDA x : x \notin caps.scopes_supported)

\* pkce.ts:10-12: 32 random bytes; two calls never draw the same verifier
GenerateCodeVerifier(p) == IF p = "p1" THEN 1 ELSE 2

\* pkce.ts:17-21: the SHA-256 digest of the verifier, one to one on the
\* verifiers drawn
GenerateCodeChallenge(v) == 2 * v + 1

\* discoverWithCapabilities has returned l.ep with the descriptor l.caps:
\* handleDiscover returns it; handleAuthorize (server.ts:676-687) validates
\* the scopes and posts the initiation request
AfterDiscovery(l) ==
  IF l.op # "authorize"
    THEN [pc |-> "done", loc |-> Done(l, "discovery", l.ep)]
  ELSE IF /\ l.caps # Absent
          /\ The(l.caps).has_list
          /\ Len(Unsupported(l.scopes, The(l.caps))) > 0
    THEN [pc |-> "done",
          loc |-> Done(l, "error", <<"Unsupported scopes">> \o
                                   Unsupported(l.scopes, The(l.caps)))]
  ELSE [pc |-> "a_init",
        loc |-> [l EXCEPT !.nNet = @ + 1, !.verifier = l.pkce,
                          !.challenge = GenerateCodeChallenge(l.pkce)]]

\* a mutant: the failure of the capability request is thrown on
OnCapsFailureThrows(l) ==
  [pc |-> "done",
   loc |-> Done([l EXCEPT !.capsOk = "failed"], "error", "Failed to fetch capabilities")]

\* dns-lookup.ts:194-197: the capability request failed; the endpoint is
\* returned with capabilities null
OnCapsFailure(l) == AfterDiscovery([l EXCEPT !.capsOk = "failed", !.caps = Absent])

\* discoverWithCapabilities, lines 181-197: the capability request answers
\* with one of resps
DiscCaps(p, resps) ==
  /\ pc[p] = "d_caps"
  /\ \E resp \in resps :
       LET l == loc[p]
           l2 == [l EXCEPT !.caps = resp.caps, !.capsOk = "ok"]
       IN IF resp.ok
            THEN /\ cache' = CacheEndpoint(cache, l.dom, FreshRow(l.ep, resp.caps))
                 /\ pc' = [pc EXCEPT ![p] = AfterDiscovery(l2).pc]
                 /\ loc' = [loc EXCEPT ![p] = AfterDiscovery(l2).loc]
            ELSE /\ cache' = cache
                 /\ pc' = [pc EXCEPT ![p] = OnCapsFailure(l).pc]
                 /\ loc' = [loc EXCEPT ![p] = OnCapsFailure(l).loc]
  /\ UNCHANGED <<clock, config, fixed, auths, issued>>

\* the caller takes the result; the process is free for the next call
Return(p) ==
  /\ pc[p] = "done"
  /\ pc' = [pc EXCEPT ![p] = "idle"]
  /\ loc' = [loc EXCEPT ![p] = InitLoc]
  /\ UNCHANGED <<clock, config, fixed, cache, auths, issued>>

\* the clock advances by one of the given amounts
Tick(steps) ==
  /\ ticks < MaxTicks
  /\ \E d \in steps : now' = now + d
  /\ ticks' = ticks + 1
  /\ UNCHANGED <<config, fixed, cache, auths, issued, pc, loc>>

----------------------------------------------------------------------------
(* Discovery alone: discoverSCPEndpoint and discoverWithCapabilities calls *)

\* every call idle, the database open, the configuration file aside from
\* max_poll_attempts
InitCalls ==
  /\ now = 0
  /\ ticks = 0
  /\ testEndpoint \in {None, TestEndpointValue}
  /\ demoMode \in BOOLEAN
  /\ masterKey \in {Some(k) : k \in Keys}
  /\ pc = [p \in Procs |-> "idle"]
  /\ loc = [p \in Procs |-> InitLoc]
  /\ Opened
  /\ server = "started"

\* config.ts:13-22: the configuration file as loadConfig first writes it
InitCommon ==
  /\ InitCalls
  /\ max_poll_attempts = DEFAULT_MAX_POLL_ATTEMPTS

InitDisc ==
  /\ InitCommon
  /\ cache \in [Domains -> {Some(r) : r \in CacheRows} \cup {Absent}]
  /\ auths = [d \in Domains |-> Absent]
  /\ issued = 0

TickDisc == Tick({1, CACHE_TTL * MS_PER_SEC})

\* one caller at a time, resolving a.com; b.com keeps the row it starts with
DiscProcs == {"p1"}
DiscDomains == {"a.com"}

NextDisc ==
  \/ \E p \in DiscProcs, d \in DiscDomains, op \in {"resolve", "discover"} :
       DiscStart(p, d, op)
  \/ \E p \in DiscProcs : DiscDns(p)
  \/ \E p \in DiscProcs : DiscWellKnown(p)
  \/ \E p \in DiscProcs : DiscHeader(p)
  \/ \E p \in DiscProcs : DiscCaps(p, CapsResponses)
  \/ \E p \in DiscProcs : Return(p)
  \/ TickDisc

SpecDisc == InitDisc /\ [][NextDisc]_vars

----------------------------------------------------------------------------
(* Token lifecycle: getValidAccessToken *)

\* a mutant: the lifetime is taken for milliseconds
ExpiresAtNoScale(t, lifetime) == t + lifetime

\* Date.now() + expires_in * 1000
ExpiresAt(t, lifetime) == t + lifetime * MS_PER_SEC

\* a mutant: refresh only once the token has expired
NeedsRefreshWhenExpired(row, t) == row.expires_at - t < 0

\* token-manager.ts:27-29
NeedsRefresh(row, t) == row.expires_at - t < TOKEN_REFRESH_THRESHOLD

\* the tools that read the customer's data at the merchant, server.ts:830-980
DataTools == {"getOrders", "getLoyalty", "getOffers", "getPreferences",
              "getIntents", "createIntent", "updateIntent"}

\* getValidAccessToken has settled as l.result: a data tool that awaited a
\* token posts its request with it (server.ts:832-834, client.ts:22-31);
\* any other caller, and a data tool on an error, is done
Settled(l) ==
  IF l.op \in DataTools /\ l.result.kind = "token"
    THEN [pc |-> "x_rpc",
          loc |-> [l EXCEPT !.bearer = Some(l.result.value), !.nNet = @ + 1,
                            !.result = InitLoc.result]]
    ELSE [pc |-> "done", loc |-> l]

\* lines 18-31, 49-55: getValidAccessToken reads the row a at time t; it
\* returns its token, or sends the refresh
EnterGetValidAccessToken(l0, a, t) ==
  LET l == [l0 EXCEPT !.auth = a, !.checkedAt = t]
  IN IF a = Absent
       THEN Settled(Done(l, "error", "NotAuthorized"))
     ELSE IF ~NeedsRefresh(The(a), t)
       THEN LET dec == DecryptToken(The(a).access_token_encrypted)
            IN Settled(IF dec.ok THEN Done(l, "token", dec.token)
                                 ELSE Done(l, "error", "decrypt"))
     ELSE LET dec == DecryptToken(The(a).refresh_token_encrypted)
          IN IF dec.ok
               THEN [pc |-> "t_refresh",
                     loc |-> [l EXCEPT !.presented = Some(dec.token),
                                       !.nNet = @ + 1,
                                       !.nRefresh = @ + 1]]
               ELSE Settled(Done(l, "error", "decrypt"))

\* a getValidAccessToken call
TokStart(p, d) ==
  /\ pc[p] = "idle"
  /\ LET r == EnterGetValidAccessToken([InitLoc EXCEPT !.op = "getToken", !.dom = d],
                                       auths[d], now)
     IN /\ pc' = [pc EXCEPT ![p] = r.pc]
        /\ loc' = [loc EXCEPT ![p] = r.loc]
  /\ UNCHANGED <<clock, config, fixed, cache, auths, issued>>

\* a mutant: a data tool that finds no record posts its request without a
\* token
EnterDataUnchecked(l, a, t) ==
  IF a = Absent
    THEN [pc |-> "x_rpc", loc |-> [l EXCEPT !.nNet = @ + 1]]
    ELSE EnterGetValidAccessToken(l, a, t)

\* server.ts:811-825: checkAuthorizationOrThrow reads the row and throws when
\* there is none, or calls getValidAccessToken
EnterData(l, a, t) ==
  IF a = Absent
    THEN [pc |-> "done", loc |-> Done(l, "error", "NotAuthorized")]
    ELSE EnterGetValidAccessToken(l, a, t)

\* server.ts:830-832 and the like: a data tool is called
DataStart(p, d, tool) ==
  /\ pc[p] = "idle"
  /\ LET r == EnterData([InitLoc EXCEPT !.op = tool, !.dom = d], auths[d], now)
     IN /\ pc' = [pc EXCEPT ![p] = r.pc]
        /\ loc' = [loc EXCEPT ![p] = r.loc]
  /\ UNCHANGED <<clock, config, fixed, cache, auths, issued>>

\* client.ts:33-51: the merchant answers the request with a result, or the
\* request fails
DataAnswer(p) ==
  /\ pc[p] = "x_rpc"
  /\ \E kind \in {"data", "error"} :
       /\ pc' = [pc EXCEPT ![p] = "done"]
       /\ loc' = [loc EXCEPT ![p] = Done(@, kind, "rpc")]
  /\ UNCHANGED <<clock, config, fixed, cache, auths, issued>>

\* lines 55-70, 33-39: the token endpoint answers with a new pair; the row is
\* updated and read again
TokRefreshOkWith(p, lifetimes, reports) ==
  /\ pc[p] = "t_refresh"
  /\ issued < MaxIssue
  /\ \E lifetime \in lifetimes, report \in reports, iv1 \in IVs, iv2 \in IVs :
       LET l  == loc[p]
           a2 == UpdateAuthorizationTokens(auths, l.dom,
                   EncryptToken(AccessTokenNo(issued), iv1),
                   EncryptToken(RefreshTokenNo(issued), iv2),
                   ExpiresAt(now, lifetime), now)
           l2 == [l EXCEPT !.refresh = "ok", !.lifetime = lifetime,
                           !.reported = report,
                           !.nWrites = @ + 1, !.updated = a2[l.dom]]
           l3 == IF a2[l.dom] = Absent
                   THEN Done(l2, "error", "Authorization lost after refresh")
                 ELSE IF DecryptToken(The(a2[l.dom]).access_token_encrypted).ok
                   THEN Done(l2, "token",
                             DecryptToken(The(a2[l.dom]).access_token_encrypted).token)
                 ELSE Done(l2, "error", "decrypt")
       IN /\ auths' = a2
          /\ pc' = [pc EXCEPT ![p] = Settled(l3).pc]
          /\ loc' = [loc EXCEPT ![p] = Settled(l3).loc]
  /\ issued' = issued + 1
  /\ UNCHANGED <<clock, config, fixed, cache>>

\* the same, the response reporting nothing but the tokens and expires_in
TokRefreshOk(p) == TokRefreshOkWith(p, Lifetimes, {Absent})

\* a mutant: a failed refresh falls back to the token that was read
OnRefreshFailureStale(l) ==
  Done([l EXCEPT !.refresh = "failed"], "token",
       DecryptToken(The(l.auth).access_token_encrypted).token)

\* lines 71-73: the refresh request failed; the error is thrown on
OnRefreshFailure(l) ==
  Done([l EXCEPT !.refresh = "failed"], "error", "Failed to refresh token")

\* oauth-client.ts:180-186: the token endpoint refuses, or the request fails
TokRefreshFail(p) ==
  /\ pc[p] = "t_refresh"
  /\ pc' = [pc EXCEPT ![p] = Settled(OnRefreshFailure(loc[p])).pc]
  /\ loc' = [loc EXCEPT ![p] = Settled(OnRefreshFailure(loc[p])).loc]
  /\ UNCHANGED <<clock, config, fixed, cache, auths, issued>>

----------------------------------------------------------------------------
(* The token lifecycle alone: concurrent getValidAccessToken calls on a     *)
(* database that holds authorizations of an earlier run                     *)

\* the row an earlier run stored for a domain: the token endpoint's pair 0
StoredRows ==
  [endpoint : {"https://old"}, customer_id : {"cust"}, customer_email : {<<"u", "shop", "io">>},
   access_token_encrypted : {EncryptToken(AccessTokenNo(0), 0)},
   refresh_token_encrypted : {EncryptToken(RefreshTokenNo(0), 0)},
   expires_at : {TOKEN_REFRESH_THRESHOLD - 1, TOKEN_REFRESH_THRESHOLD},
   scopes : {<<"orders">>}, created_at : {0}, updated_at : {0}]

InitTok ==
  /\ InitCommon
  /\ cache = [d \in Domains |-> Absent]
  /\ auths \in [Domains -> {Some(r) : r \in StoredRows} \cup {Absent}]
  /\ issued = 1

TokDomains == {"a.com"}

TickTok == Tick({1, 3600 * MS_PER_SEC - TOKEN_REFRESH_THRESHOLD})

NextTok ==
  \/ \E p \in Procs, d \in TokDomains : TokStart(p, d)
  \/ \E p \in Procs : TokRefreshOk(p)
  \/ \E p \in Procs : TokRefreshFail(p)
  \/ \E p \in Procs : Return(p)
  \/ TickTok

SpecTok == InitTok /\ [][NextTok]_vars

----------------------------------------------------------------------------
(* The revoke tool: handleRevokeAuthorization *)

\* DELETE FROM merchant_authorizations without its WHERE clause
DeleteEveryAuthorization(a, d) == [x \in DOMAIN a |-> Absent]

\* DELETE FROM merchant_authorizations WHERE merchant_domain = d
DeleteAuthorization(a, d) == [a EXCEPT ![d] = Absent]

\* a mutant: revoke on a domain without record is a no-op that succeeds
RevokeAbsentNoop(l) == Done(l, "revoked", None)

\* server.ts:758-760: no record for the domain
RevokeAbsent(l) == Done(l, "error", "No authorization found")

\* a mutant: a failure inside the try block is thrown on, the row is kept
RevokeOutcomeStrict(a, l, tryOk) ==
  IF tryOk
    THEN [auths |-> DeleteAuthorization(a, l.dom),
          loc   |-> Done([l EXCEPT !.nWrites = @ + 1], "revoked", None)]
    ELSE [auths |-> a, loc |-> Done(l, "error", "Token revocation failed")]

\* server.ts:763-780: the try block has ended, with or without a throw; the
\* row is deleted and the success text returned
RevokeOutcome(a, l, tryOk) ==
  [auths |-> DeleteAuthorization(a, l.dom),
   loc   |-> Done([l EXCEPT !.nWrites = @ + 1], "revoked", None)]

\* getValidAccessToken inside the try block has returned a token: the
\* revocation request goes to the endpoint of the row the handler read
SendRevoke(l) ==
  [l EXCEPT !.revokes = @ + 1, !.revokeTo = The(l.auth).endpoint, !.nNet = @ + 1]

\* server.ts:755-765, token-manager.ts:18-31, 49-55: read the row; with a
\* token that needs no refresh the revocation request is sent, otherwise the
\* refresh request
RevStart(p, d) ==
  /\ pc[p] = "idle"
  /\ LET l == [InitLoc EXCEPT !.op = "revoke", !.dom = d, !.auth = auths[d],
                              !.checkedAt = now]
     IN IF auths[d] = Absent
          THEN /\ pc' = [pc EXCEPT ![p] = "done"]
               /\ loc' = [loc EXCEPT ![p] = RevokeAbsent(l)]
               /\ auths' = auths
        ELSE IF ~NeedsRefresh(The(auths[d]), now)
          THEN IF DecryptToken(The(auths[d]).access_token_encrypted).ok
                 THEN /\ pc' = [pc EXCEPT ![p] = "r_revoke"]
                      /\ loc' = [loc EXCEPT ![p] = SendRevoke(l)]
                      /\ auths' = auths
                 ELSE /\ pc' = [pc EXCEPT ![p] = "done"]
                      /\ loc' = [loc EXCEPT ![p] = RevokeOutcome(auths, l, FALSE).loc]
                      /\ auths' = RevokeOutcome(auths, l, FALSE).auths
        ELSE LET dec == DecryptToken(The(auths[d]).refresh_token_encrypted)
             IN IF dec.ok
                  THEN /\ pc' = [pc EXCEPT ![p] = "r_refresh"]
                       /\ loc' = [loc EXCEPT ![p] =
                                    [l EXCEPT !.presented = Some(dec.token),
                                              !.nNet = @ + 1,
                                              !.nRefresh = @ + 1]]
                       /\ auths' = auths
                  ELSE /\ pc' = [pc EXCEPT ![p] = "done"]
                       /\ loc' = [loc EXCEPT ![p] = RevokeOutcome(auths, l, FALSE).loc]
                       /\ auths' = RevokeOutcome(auths, l, FALSE).auths
  /\ UNCHANGED <<clock, config, fixed, cache, issued>>

\* token-manager.ts:55-70, 33-39, server.ts:764-765: the refresh succeeds,
\* the row is updated and read again, the revocation request is sent
RevRefreshOk(p) ==
  /\ pc[p] = "r_refresh"
  /\ issued < MaxIssue
  /\ \E lifetime \in Lifetimes, iv1 \in IVs, iv2 \in IVs :
       LET l  == loc[p]
           a2 == UpdateAuthorizationTokens(auths, l.dom,
                   EncryptToken(AccessTokenNo(issued), iv1),
                   EncryptToken(RefreshTokenNo(issued), iv2),
                   ExpiresAt(now, lifetime), now)
           l2 == [l EXCEPT !.refresh = "ok", !.lifetime = lifetime,
                           !.nWrites = @ + 1, !.updated = a2[l.dom]]
       IN IF a2[l.dom] # Absent /\ DecryptToken(The(a2[l.dom]).access_token_encrypted).ok
            THEN /\ auths' = a2
                 /\ pc' = [pc EXCEPT ![p] = "r_revoke"]
                 /\ loc' = [loc EXCEPT ![p] = SendRevoke(l2)]
            ELSE /\ auths' = RevokeOutcome(a2, l2, FALSE).auths
                 /\ pc' = [pc EXCEPT ![p] = "done"]
                 /\ loc' = [loc EXCEPT ![p] = RevokeOutcome(a2, l2, FALSE).loc]
  /\ issued' = issued + 1
  /\ UNCHANGED <<clock, config, fixed, cache>>

\* token-manager.ts:71-73, server.ts:766-771: the refresh fails;
\* getValidAccessToken throws inside the try block, revokeToken is not called
RevRefreshFail(p) ==
  /\ pc[p] = "r_refresh"
  /\ LET l == [loc[p] EXCEPT !.refresh = "failed"]
     IN /\ auths' = RevokeOutcome(auths, l, FALSE).auths
        /\ pc' = [pc EXCEPT ![p] = "done"]
        /\ loc' = [loc EXCEPT ![p] = RevokeOutcome(auths, l, FALSE).loc]
  /\ UNCHANGED <<clock, config, fixed, cache, issued>>

\* oauth-client.ts:205-216, server.ts:765-780: the revocation request is
\* answered, accepted or not
RevRemote(p) ==
  /\ pc[p] = "r_revoke"
  /\ \E ok \in BOOLEAN :
       /\ auths' = RevokeOutcome(auths, loc[p], ok).auths
       /\ pc' = [pc EXCEPT ![p] = "done"]
       /\ loc' = [loc EXCEPT ![p] =
                    RevokeOutcome(auths,
                                  [loc[p] EXCEPT !.remote = IF ok THEN "ok" ELSE "failed"],
                                  ok).loc]
  /\ UNCHANGED <<clock, config, fixed, cache, issued>>

----------------------------------------------------------------------------
(* Revocations and token reads together, on a database that holds
   authorizations of an earlier run *)

\* the default configuration; the store as an earlier run left it
InitRev ==
  /\ InitTok
  /\ testEndpoint = None
  /\ demoMode

NextRev ==
  \/ \E p \in Procs, d \in TokDomains : RevStart(p, d)
  \/ \E p \in Procs : RevRefreshOk(p)
  \/ \E p \in Procs : RevRefreshFail(p)
  \/ \E p \in Procs : RevRemote(p)
  \/ \E p \in Procs, d \in TokDomains : TokStart(p, d)
  \/ \E p \in Procs : TokRefreshOk(p)
  \/ \E p \in Procs : TokRefreshFail(p)
  \/ \E p \in Procs : Return(p)
  \/ TickTok

SpecRev == InitRev /\ [][NextRev]_vars

----------------------------------------------------------------------------
(* The authorize tool: handleAuthorize and completeAuthorizationFlow *)

Range(f) == {f[i] : i \in DOMAIN f}

\* server.ts:611: email.endsWith('@example.com') || email.includes('example')
InvalidEmail(email) ==
  \/ /\ Len(email) >= 3
     /\ email[Len(email) - 1] = "example"
     /\ email[Len(email)] = "com"
  \/ \E i \in DOMAIN email : email[i] = "example"

\* server.ts:627-633: the two scope arrays compared as sets
ScopesMatch(existingScopes, scopes) ==
  /\ Cardinality(Range(existingScopes)) = Cardinality(Range(scopes))
  /\ \A x \in Range(scopes) : x \in Range(existingScopes)

\* a mutant: the scope arrays are compared element by element
EarlyAnswerOrderedScopes(email, scopes, ex) ==
  IF InvalidEmail(email) THEN "invalid_email"
  ELSE IF ex = Absent THEN "proceed"
  ELSE IF The(ex).scopes = scopes /\ The(ex).customer_email = email
    THEN "already_authorized"
  ELSE IF The(ex).customer_email # email THEN "identity_conflict"
  ELSE "proceed"

\* a mutant: the email is validated after the record has been looked at
EarlyAnswerStoreFirst(email, scopes, ex) ==
  IF ex # Absent /\ ScopesMatch(The(ex).scopes, scopes) /\ The(ex).customer_email = email
    THEN "already_authorized"
  ELSE IF ex # Absent /\ The(ex).customer_email # email THEN "identity_conflict"
  ELSE IF InvalidEmail(email) THEN "invalid_email"
  ELSE "proceed"

\* a mutant: a different email re-authorizes instead of being refused
EarlyAnswerNoConflict(email, scopes, ex) ==
  IF InvalidEmail(email) THEN "invalid_email"
  ELSE IF ex = Absent THEN "proceed"
  ELSE IF ScopesMatch(The(ex).scopes, scopes) /\ The(ex).customer_email = email
    THEN "already_authorized"
  ELSE "proceed"

\* server.ts:610-668: what handleAuthorize answers before any discovery, for
\* the row ex it read; "proceed" when it goes on to discovery
EarlyAnswer(email, scopes, ex) ==
  IF InvalidEmail(email) THEN "invalid_email"
  ELSE IF ex = Absent THEN "proceed"
  ELSE IF ScopesMatch(The(ex).scopes, scopes) /\ The(ex).customer_email = email
    THEN "already_authorized"
  ELSE IF The(ex).customer_email # email THEN "identity_conflict"
  ELSE "proceed"

\* the fields of the row handleAuthorize uses later
Existing(ex) ==
  {[customer_email |-> r.customer_email, scopes |-> r.scopes,
    created_at |-> r.created_at] : r \in ex}

\* server.ts:605-671
AuthStart(p, d, email, scopes) ==
  /\ pc[p] = "idle"
  /\ LET l0  == [InitLoc EXCEPT !.op = "authorize", !.dom = d, !.email = email,
                                !.scopes = scopes,
                                !.pkce = GenerateCodeVerifier(p),
                                !.maxAttempts = DEFAULT_MAX_POLL_ATTEMPTS]
         ans == EarlyAnswer(email, scopes, auths[d])
         l1  == [l0 EXCEPT !.existing = Existing(auths[d])]
     IN IF ans = "invalid_email"
          THEN /\ pc' = [pc EXCEPT ![p] = "done"]
               /\ loc' = [loc EXCEPT ![p] = Done(l0, ans, email)]
        ELSE IF ans # "proceed"
          THEN /\ pc' = [pc EXCEPT ![p] = "done"]
               /\ loc' = [loc EXCEPT ![p] = Done(l1, ans, The(auths[d]).customer_email)]
        ELSE /\ pc' = [pc EXCEPT ![p] = BeginDiscovery(l1).pc]
             /\ loc' = [loc EXCEPT ![p] = BeginDiscovery(l1).loc]
  /\ UNCHANGED <<clock, config, fixed, cache, auths, issued>>

\* oauth-client.ts:84-96, 117: pollAuthorization starts: the first poll
\* request, or the timeout at once when the loop is not entered
EnterPoll(l) ==
  IF 0 < l.maxAttempts
    THEN [pc |-> "a_poll",
          loc |-> [l EXCEPT !.attempts = 0, !.polls = 1, !.nNet = @ + 1]]
    ELSE [pc |-> "done",
          loc |-> Done([l EXCEPT !.attempts = 0], "error", <<"Authorization timeout">>)]

\* oauth-client.ts:64-71, 241: the initiation request is accepted
AuthInitiated(p) ==
  /\ pc[p] = "a_init"
  /\ pc' = [pc EXCEPT ![p] = EnterPoll(loc[p]).pc]
  /\ loc' = [loc EXCEPT ![p] = EnterPoll(loc[p]).loc]
  /\ UNCHANGED <<clock, config, fixed, cache, auths, issued>>

\* oauth-client.ts:56-62: the initiation request is refused or fails
AuthInitFailed(p) ==
  /\ pc[p] = "a_init"
  /\ pc' = [pc EXCEPT ![p] = "done"]
  /\ loc' = [loc EXCEPT ![p] = Done(@, "error", "Authorization failed")]
  /\ UNCHANGED <<clock, config, fixed, cache, auths, issued>>

\* A poll answer: a status that is not ok, whose body is not read, or a body
\* with a status, with or without a code and a reason.
PollResponses ==
  {[ok |-> FALSE, status |-> None, code |-> None, reason |-> None]}
    \cup [ok : {TRUE},
          status : {"pending", "authorized", "denied", "expired", "unknown"},
          code : {None, "K"},
          reason : {None, "R"}]

\* a mutant: an unknown status ends the polling
PollOutcomeStrict(resp) ==
  IF ~resp.ok THEN "failed"
  ELSE IF resp.status = "authorized" /\ resp.code # None THEN "authorized"
  ELSE IF resp.status = "denied" THEN "denied"
  ELSE IF resp.status = "pending" THEN "pending"
  ELSE "expired"

\* oauth-client.ts:98-110
PollOutcome(resp) ==
  IF ~resp.ok THEN "failed"
  ELSE IF resp.status = "authorized" /\ resp.code # None THEN "authorized"
  ELSE IF resp.status = "denied" THEN "denied"
  ELSE IF resp.status = "expired" THEN "expired"
  ELSE "pending"

\* oauth-client.ts:99, 107, 109: what is thrown for an answer that ends the
\* polling without a code
PollError(resp) ==
  IF PollOutcome(resp) = "failed" THEN <<"Poll failed">>
  ELSE IF PollOutcome(resp) = "denied"
    THEN <<"Authorization denied",
           IF resp.reason # None THEN resp.reason ELSE "User declined">>
  ELSE <<"Authorization request expired">>

\* a mutant: the loop runs while attempts <= maxAttempts
CapReachedLate(l) == ~(l.attempts + 1 <= l.maxAttempts)

\* oauth-client.ts:86, 114: after attempts++, the loop condition fails
CapReached(l) == ~(l.attempts + 1 < l.maxAttempts)

\* a mutant: attempts is not incremented
AfterWaitNoCount(l) ==
  [pc |-> "a_poll", loc |-> [l EXCEPT !.polls = @ + 1, !.nNet = @ + 1]]

\* oauth-client.ts:112-117, 86-96: the interval has been waited and attempts
\* incremented: the next poll request, or the timeout
AfterWait(l) ==
  IF CapReached(l)
    THEN [pc |-> "done",
          loc |-> Done([l EXCEPT !.attempts = @ + 1], "error", <<"Authorization timeout">>)]
    ELSE [pc |-> "a_poll",
          loc |-> [l EXCEPT !.attempts = @ + 1, !.polls = @ + 1, !.nNet = @ + 1]]

\* a mutant: the exchange request carries a verifier drawn anew
AfterCodeNewVerifier(l, code) ==
  IF l.op = "poll"
    THEN [pc |-> "done", loc |-> Done([l EXCEPT !.code = code], "code", code)]
    ELSE [pc |-> "a_exchange",
          loc |-> [l EXCEPT !.code = code, !.nNet = @ + 1, !.sentCode = code,
                            !.sentVerifier = l.verifier + 2]]

\* oauth-client.ts:104-105: the code is returned; completeAuthorizationFlow
\* (line 244) posts it with codeVerifier to the token endpoint (125-141)
AfterCode(l, code) ==
  IF l.op = "poll"
    THEN [pc |-> "done", loc |-> Done([l EXCEPT !.code = code], "code", code)]
    ELSE [pc |-> "a_exchange",
          loc |-> [l EXCEPT !.code = code, !.nNet = @ + 1, !.sentCode = code,
                            !.sentVerifier = l.verifier]]

\* oauth-client.ts:86-117: a poll request is answered with one of resps;
\* at most maxPending answers of one call leave it pending
AuthPollUpTo(p, resps, maxPending) ==
  /\ pc[p] = "a_poll"
  /\ \E resp \in resps :
       LET l == [loc[p] EXCEPT !.seen = Append(@, resp)]
           o == PollOutcome(resp)
       IN /\ o = "pending" => l.attempts < maxPending
          /\ IF o = "authorized"
               THEN /\ pc' = [pc EXCEPT ![p] = AfterCode(l, resp.code).pc]
                    /\ loc' = [loc EXCEPT ![p] = AfterCode(l, resp.code).loc]
             ELSE IF o = "pending"
               THEN /\ pc' = [pc EXCEPT ![p] = AfterWait(l).pc]
                    /\ loc' = [loc EXCEPT ![p] = AfterWait(l).loc]
             ELSE /\ pc' = [pc EXCEPT ![p] = "done"]
                  /\ loc' = [loc EXCEPT ![p] = Done(l, "error", PollError(resp))]
  /\ UNCHANGED <<clock, config, fixed, cache, auths, issued>>

\* the same, with at most MaxPending answers that leave the call pending
AuthPoll(p, resps) == AuthPollUpTo(p, resps, MaxPending)

\* a pollAuthorization call with a given attempt cap
PollStart(p, d, maxAttempts) ==
  /\ pc[p] = "idle"
  /\ LET l == [InitLoc EXCEPT !.op = "poll", !.dom = d, !.ep = DemoEndpoint,
                              !.maxAttempts = maxAttempts]
     IN /\ pc' = [pc EXCEPT ![p] = EnterPoll(l).pc]
        /\ loc' = [loc EXCEPT ![p] = EnterPoll(l).loc]
  /\ UNCHANGED <<clock, config, fixed, cache, auths, issued>>

\* a mutant: the upsert also overwrites created_at
StoreAuthorizationReplace(a, d, row) == [a EXCEPT ![d] = Some(row)]

\* INSERT ... ON CONFLICT(merchant_domain) DO UPDATE SET every column but
\* created_at
StoreAuthorization(a, d, row) ==
  IF a[d] = Absent THEN [a EXCEPT ![d] = Some(row)]
  ELSE [a EXCEPT ![d] = Some([row EXCEPT !.created_at = The(a[d]).created_at])]

\* server.ts:700
CreatedAtFor(existing, t) ==
  IF existing # Absent THEN The(existing).created_at ELSE t

\* oauth-client.ts:153-155, server.ts:689-713: the token endpoint exchanges
\* the code for a token response; the row is stored
AuthExchangeOk(p, lifetimes, granted, emails, ivs) ==
  /\ pc[p] = "a_exchange"
  /\ issued < MaxIssue
  /\ \E lifetime \in lifetimes, scope \in granted, em \in emails,
        iv1 \in ivs, iv2 \in ivs :
       LET l   == loc[p]
           row == [endpoint                |-> l.ep,
                   customer_id             |-> "cust",
                   customer_email          |-> em,
                   access_token_encrypted  |-> EncryptToken(AccessTokenNo(issued), iv1),
                   refresh_token_encrypted |-> EncryptToken(RefreshTokenNo(issued), iv2),
                   expires_at              |-> ExpiresAt(now, lifetime),
                   scopes                  |-> scope,
                   created_at              |-> CreatedAtFor(l.existing, now),
                   updated_at              |-> now]
       IN /\ auths' = StoreAuthorization(auths, l.dom, row)
          /\ pc' = [pc EXCEPT ![p] = "done"]
          /\ loc' = [loc EXCEPT ![p] =
                       Done([l EXCEPT !.nWrites = @ + 1, !.lifetime = lifetime,
                                      !.granted = scope],
                            "connected", em)]
  /\ issued' = issued + 1
  /\ UNCHANGED <<clock, config, fixed, cache>>

\* a mutant: a failed exchange removes the record
AuthExchangeFailClears(p) ==
  /\ pc[p] = "a_exchange"
  /\ pc' = [pc EXCEPT ![p] = "done"]
  /\ loc' = [loc EXCEPT ![p] = Done(@, "error", "Token exchange failed")]
  /\ auths' = DeleteAuthorization(auths, loc[p].dom)
  /\ UNCHANGED <<clock, config, fixed, cache, issued>>

\* oauth-client.ts:145-151: the exchange is refused or fails
AuthExchangeFail(p) ==
  /\ pc[p] = "a_exchange"
  /\ pc' = [pc EXCEPT ![p] = "done"]
  /\ loc' = [loc EXCEPT ![p] = Done(@, "error", "Token exchange failed")]
  /\ UNCHANGED <<clock, config, fixed, cache, auths, issued>>

----------------------------------------------------------------------------
(* Authorize and token calls together, on a database that starts empty *)

InitAuth ==
  /\ InitCommon
  /\ testEndpoint = None
  /\ demoMode
  /\ cache = [d \in Domains |-> Absent]
  /\ auths = [d \in Domains |-> Absent]
  /\ issued = 0

AuthDomains == {"a.com"}

\* the capability answers of the demo endpoint: a failure, a descriptor
\* without loyalty, a descriptor with both scopes
AuthCapsResponses ==
  {r \in CapsResponses :
     r.ok => /\ r.caps # Absent
             /\ The(r.caps).has_list
             /\ "orders" \in The(r.caps).scopes_supported}

AuthLifetimes == {60, 3600}

TickAuth == Tick({1})

\* the emails and scopes token responses carry
GrantedEmails == {<<"u", "shop", "io">>, <<"x", "example", "com">>}
GrantedScopes == {<<"orders">>, <<"orders", "loyalty">>}

\* the poll answers of the demo endpoint: a failure, or one of the four
\* statuses
AuthPolls ==
  {r \in PollResponses :
     r.ok => r.code # None /\ r.reason = None /\ r.status # "unknown"}

\* one authorize call at a time, with every email and scope list
Authorizers == {"p1"}

NextAuth ==
  \/ \E p \in Authorizers, d \in AuthDomains, email \in Emails, scopes \in ScopeLists :
       AuthStart(p, d, email, scopes)
  \/ \E p \in Authorizers : DiscCaps(p, CapsResponses)
  \/ \E p \in Authorizers : AuthInitiated(p)
  \/ \E p \in Authorizers : AuthInitFailed(p)
  \/ \E p \in Authorizers : AuthPoll(p, AuthPolls)
  \/ \E p \in Authorizers :
       AuthExchangeOk(p, AuthLifetimes, GrantedScopes, GrantedEmails, {0})
  \/ \E p \in Authorizers : AuthExchangeFail(p)
  \/ \E p \in Authorizers : Return(p)
  \/ TickAuth

SpecAuth == InitAuth /\ [][NextAuth]_vars

----------------------------------------------------------------------------
(* Re-authorizations and refreshes of one customer's record, two calls at a
   time *)

ReauthEmails == {<<"u", "shop", "io">>}

\* the user is asked once more, or approves
GrantingPolls ==
  {r \in PollResponses :
     r.ok /\ r.code # None /\ r.reason = None
          /\ r.status \in {"pending", "authorized"}}

NextReauth ==
  \/ \E p \in Procs, d \in AuthDomains, email \in ReauthEmails, scopes \in GrantedScopes :
       AuthStart(p, d, email, scopes)
  \/ \E p \in Procs : DiscCaps(p, {r \in AuthCapsResponses : ~r.ok})
  \/ \E p \in Procs : AuthInitiated(p)
  \/ \E p \in Procs : AuthInitFailed(p)
  \/ \E p \in Procs : AuthPoll(p, GrantingPolls)
  \/ \E p \in Procs :
       AuthExchangeOk(p, AuthLifetimes, GrantedScopes, ReauthEmails, {0})
  \/ \E p \in Procs : AuthExchangeFail(p)
  \/ \E p \in Procs, d \in AuthDomains : TokStart(p, d)
  \/ \E p \in Procs : TokRefreshOk(p)
  \/ \E p \in Procs : TokRefreshFail(p)
  \/ \E p \in Procs : Return(p)
  \/ TickAuth

SpecReauth == InitAuth /\ [][NextReauth]_vars

----------------------------------------------------------------------------
(* pollAuthorization alone, with small attempt caps and every answer *)

PollCaps == {0, 1, 2, 3, DEFAULT_MAX_POLL_ATTEMPTS}

NextPoll ==
  \/ \E p \in Authorizers, d \in AuthDomains, cap \in PollCaps : PollStart(p, d, cap)
  \/ \E p \in Authorizers : AuthPoll(p, PollResponses)
  \/ \E p \in Authorizers : Return(p)
  \/ TickAuth

SpecPoll == InitAuth /\ [][NextPoll]_vars

----------------------------------------------------------------------------
(* tryDNSDiscovery on the text of TXT records *)

\* The pieces a TXT record is made of here: the version tag, a blank, the
\* endpoint key, the https scheme, and any other character that is no blank.
TxtTokens == {"v=scp1", " ", "endpoint=", "https://", "h"}

RECURSIVE TokenSeqs(_)
\* the texts of n pieces
TokenSeqs(n) ==
  IF n = 0 THEN {<<>>}
  ELSE {Append(t, x) : t \in TokenSeqs(n - 1), x \in TxtTokens}

TxtTexts == UNION {TokenSeqs(n) : n \in 0..MaxTxtLen}

\* A TXT record as the resolver returns it: an array of strings, here the
\* text cut in two at any place.
TxtChunked ==
  UNION {{<<SubSeq(t, 1, k), SubSeq(t, k + 1, Len(t))>> : k \in 0..Len(t)} : t \in TxtTexts}

\* two records of a resolver answer that holds several
TxtAccepted == << <<"v=scp1", " ">>, <<"endpoint=", "https://", "h", " ", "h">> >>
TxtIgnored == << <<" ", "v=scp1", " ", "endpoint=", "https://", "h">> >>

\* the resolver answers: one record, or one record before or after a second
TxtAnswers ==
  {<<r>> : r \in TxtChunked}
    \cup {<<r, s>> : r \in TxtChunked, s \in {TxtAccepted, TxtIgnored}}
    \cup {<<s, r>> : r \in TxtChunked, s \in {TxtAccepted, TxtIgnored}}

RECURSIVE Join(_)
\* record.join('')
Join(chunks) ==
  IF chunks = <<>> THEN <<>> ELSE Head(chunks) \o Join(Tail(chunks))

\* a mutant: the version tag may stand anywhere in the text
StartsWithScp1Anywhere(t) == \E i \in DOMAIN t : t[i] = "v=scp1"

\* txt.startsWith('v=scp1')
StartsWithScp1(t) == Len(t) >= 1 /\ t[1] = "v=scp1"

\* /endpoint=(https:\/\/[^\s]+)/ matches at piece i
MatchesAt(t, i) ==
  /\ i + 2 <= Len(t)
  /\ t[i] = "endpoint="
  /\ t[i + 1] = "https://"
  /\ t[i + 2] # " "

\* the end of the longest run without blank that starts at piece i
RunEnd(t, i) ==
  CHOOSE j \in i..Len(t) :
    /\ \A k \in i..j : t[k] # " "
    /\ j = Len(t) \/ t[j + 1] = " "

\* txt.match(...): group 1 of the leftmost match, <<>> when there is none
MatchEndpoint(t) ==
  IF \E i \in DOMAIN t : MatchesAt(t, i)
    THEN LET i == CHOOSE i \in DOMAIN t :
                    MatchesAt(t, i) /\ \A k \in 1..(i - 1) : ~MatchesAt(t, k)
         IN SubSeq(t, i + 1, RunEnd(t, i + 2))
    ELSE <<>>

\* dns-lookup.ts:79-88: the endpoint one record yields, <<>> when it is
\* passed over
RecordEndpoint(record) ==
  IF StartsWithScp1(Join(record)) THEN MatchEndpoint(Join(record)) ELSE <<>>

RECURSIVE FirstEndpoint(_)
\* dns-lookup.ts:77-91: the loop over the records
FirstEndpoint(recs) ==
  IF recs = <<>> THEN <<>>
  ELSE IF RecordEndpoint(Head(recs)) # <<>> THEN RecordEndpoint(Head(recs))
  ELSE FirstEndpoint(Tail(recs))

\* tryDNSDiscovery with the resolver answering recs
TxtResolve(p, recs) ==
  /\ pc[p] = "idle"
  /\ LET l == [InitLoc EXCEPT !.op = "txt", !.txt = recs, !.dnsCode = "records",
                              !.nNet = 1]
     IN /\ pc' = [pc EXCEPT ![p] = "done"]
        /\ loc' = [loc EXCEPT ![p] =
                     IF FirstEndpoint(recs) # <<>>
                       THEN Done(l, "endpoint", FirstEndpoint(recs))
                       ELSE Done(l, "notfound", None)]
  /\ UNCHANGED <<clock, config, fixed, cache, auths, issued>>

NextTxt ==
  \/ \E p \in DiscProcs : pc[p] = "idle" /\ \E recs \in TxtAnswers : TxtResolve(p, recs)
  \/ \E p \in DiscProcs : Return(p)

SpecTxt == InitAuth /\ [][NextTxt]_vars

----------------------------------------------------------------------------
(* encryptToken and decryptToken on token strings: one call encrypts a      *)
(* string, the envelope may be altered while stored, and is decrypted       *)

\* a second key, for tags made under another key
OtherKeys == {4}

\* the envelopes that differ from env in one byte of the ciphertext
AlteredData(env) ==
  UNION {{[env EXCEPT !.data[i] = v] : v \in (0 .. (Len(Scalars) - 1)) \ {env.data[i]}} :
           i \in DOMAIN env.data}

\* the envelopes that differ from env in the tag
AlteredTag(env) ==
  {[env EXCEPT !.tag = t] :
     t \in ({GetAuthTag(k, iv, e.data) :
               k \in Keys \cup OtherKeys, iv \in IVs, e \in {env} \cup AlteredData(env)}
            \ {env.tag})}

Encrypt(p) ==
  /\ pc[p] = "idle"
  /\ masterKey # Absent
  /\ \E iv \in IVs :
       loc' = [loc EXCEPT ![p].op = "encrypt",
                          ![p].envelope = Some(EncryptText(loc[p].text, iv))]
  /\ pc' = [pc EXCEPT ![p] = "sealed"]
  /\ UNCHANGED <<clock, config, fixed, cache, auths, issued>>

Alter(p) ==
  /\ pc[p] = "sealed"
  /\ loc[p].altered = None
  /\ \/ \E e \in AlteredData(The(loc[p].envelope)) :
          loc' = [loc EXCEPT ![p].envelope = Some(e), ![p].altered = "data"]
     \/ \E e \in AlteredTag(The(loc[p].envelope)) :
          loc' = [loc EXCEPT ![p].envelope = Some(e), ![p].altered = "tag"]
  /\ UNCHANGED <<clock, config, fixed, cache, auths, issued, pc>>

Decrypt(p) ==
  /\ pc[p] = "sealed"
  /\ masterKey # Absent
  /\ LET dec == DecryptText(The(loc[p].envelope))
     IN loc' = [loc EXCEPT ![p] =
                  IF dec.ok
                    THEN Done([@ EXCEPT !.plain = Some(dec.text)], "ok", "decrypted")
                    ELSE Done(@, "error", "Unsupported state or unable to authenticate data")]
  /\ pc' = [pc EXCEPT ![p] = "done"]
  /\ UNCHANGED <<clock, config, fixed, cache, auths, issued>>

CryptProcs == {"p1"}

InitCrypt ==
  /\ now = 0
  /\ ticks = 0
  /\ testEndpoint = None
  /\ demoMode = TRUE
  /\ max_poll_attempts = DEFAULT_MAX_POLL_ATTEMPTS
  /\ masterKey \in {Some(k) : k \in Keys}
  /\ pc = [p \in Procs |-> "idle"]
  /\ \E T \in Texts : loc = [p \in Procs |-> [InitLoc EXCEPT !.text = T]]
  /\ Opened
  /\ server = "started"
  /\ cache = [d \in Domains |-> Absent]
  /\ auths = [d \in Domains |-> Absent]
  /\ issued = 0

NextCrypt ==
  \/ \E p \in CryptProcs : Encrypt(p)
  \/ \E p \in CryptProcs : Alter(p)
  \/ \E p \in CryptProcs : Decrypt(p)

SpecCrypt == InitCrypt /\ [][NextCrypt]_vars

----------------------------------------------------------------------------
(* The database module and the key set-up, statement by statement: callers  *)
(* of the exported store functions and of initEncryption, from the state    *)
(* the modules are loaded in.  A caller yields at every await that can let  *)
(* another caller run: initSqlJs(), initializeSchema(db), and the return of *)
(* getDatabase, of getEncryptionKey and of storeEncryptionKey.              *)

\* a caller completes at most this many calls
MaxCalls == 2

\* opaque envelope strings, as the store functions are handed them
Envelopes == {[iv |-> 0, data |-> n, tag |-> n] : n \in {0, 1}}

\* the argument of storeAuthorization: a domain and the record's columns
AuthArg(d, n) ==
  [merchant_domain |-> d, scp_endpoint |-> "https://demo", customer_id |-> "cust",
   customer_email |-> <<"u", "shop", "io">>,
   access_token_encrypted |-> [iv |-> 0, data |-> n, tag |-> n],
   refresh_token_encrypted |-> [iv |-> 0, data |-> n, tag |-> n],
   expires_at |-> n, scopes |-> <<"orders">>, created_at |-> n, updated_at |-> n]

\* the argument of cacheEndpoint
EndpointArg(d, ep) ==
  [domain |-> d, endpoint |-> ep, capabilities |-> Absent, discovered_at |-> 0, ttl |-> CACHE_TTL]

\* the calls made: the function and its argument
StoreCalls ==
  {<<"storeAuthorization", AuthArg("a.com", 0)>>, <<"storeAuthorization", AuthArg("a.com", 1)>>,
   <<"storeAuthorization", AuthArg("b.com", 0)>>,
   <<"updateAuthorizationTokens",
     [merchant_domain |-> "a.com", access_token_encrypted |-> [iv |-> 1, data |-> 1, tag |-> 1],
      refresh_token_encrypted |-> [iv |-> 1, data |-> 1, tag |-> 1], expires_at |-> 1]>>,
   <<"deleteAuthorization", "a.com">>,
   <<"cacheEndpoint", EndpointArg("a.com", "https://dns1")>>,
   <<"cacheEndpoint", EndpointArg("a.com", "https://dns2")>>}

\* a key record whose key createCipheriv does not accept
BadKeys == {0}

\* an exception leaves the store function; testEncryption catches it
Throw(l, msg) ==
  IF l.caller = "main"
    THEN [pc |-> "tested", loc |-> [l EXCEPT !.test = Some(FALSE)]]
    ELSE [pc |-> "done", loc |-> Done(l, "error", msg)]

\* getDatabase up to its first await: the handle at once when db is set
EnterGetDatabase(l) ==
  IF db = Absent
    THEN [pc |-> "lib", loc |-> l]
    ELSE [pc |-> "opened", loc |-> [l EXCEPT !.database = db]]

\* a store function is called
StoreCall(p, call) ==
  /\ pc[p] = "idle"
  /\ loc[p].calls < MaxCalls
  /\ LET e == EnterGetDatabase([loc[p] EXCEPT !.op = call[1], !.arg = Some(call[2])])
     IN /\ pc' = [pc EXCEPT ![p] = e.pc]
        /\ loc' = [loc EXCEPT ![p] = e.loc]
  /\ UNCHANGED <<clock, config, cache, auths, issued, masterKey, storage, server>>

\* initEncryption, that is getMasterKey, is called
KeyStart(p, caller) ==
  /\ pc[p] = "idle"
  /\ loc[p].calls < MaxCalls
  /\ LET l == [loc[p] EXCEPT !.caller = caller]
         e == IF masterKey # Absent
                THEN [pc |-> IF caller = "main" THEN "inited" ELSE "done",
                      loc |-> Done([l EXCEPT !.op = "getMasterKey", !.key = masterKey],
                                   "ok", "cached")]
                ELSE EnterGetDatabase([l EXCEPT !.op = "getEncryptionKey"])
     IN /\ pc' = [pc EXCEPT ![p] = e.pc]
        /\ loc' = [loc EXCEPT ![p] = e.loc]
  /\ UNCHANGED <<clock, config, cache, auths, issued, masterKey, storage, server>>

\* initSqlJs() resolved: sqlJs is set, the file is loaded or a database
\* created, db assigned and the schema statements run
LibLoaded(p) ==
  /\ pc[p] = "lib"
  /\ sqlJs' = TRUE
  /\ handles' = Append(handles, InitializeSchema(IF disk # Absent THEN The(disk) ELSE NewDatabase))
  /\ db' = Some(Len(handles) + 1)
  /\ pc' = [pc EXCEPT ![p] = "schema"]
  /\ UNCHANGED <<clock, config, cache, auths, issued, masterKey, disk, server, loc>>

\* initSqlJs() rejected
LibFailed(p) ==
  /\ pc[p] = "lib"
  /\ LET e == Throw(loc[p], "sql.js failed to load")
     IN /\ pc' = [pc EXCEPT ![p] = e.pc]
        /\ loc' = [loc EXCEPT ![p] = e.loc]
  /\ UNCHANGED <<clock, config, cache, auths, issued, masterKey, storage, server>>

\* saveDatabase(database): writeFileSync of the export, or its exception
SaveDatabase(h, ok) == IF ok THEN disk' = Some(handles'[h]) ELSE disk' = disk

\* initializeSchema(db) resolved: saveDatabase(db) and return db, both
\* reading the module variable as it is now
SchemaDone(p, ok) ==
  /\ pc[p] = "schema"
  /\ handles' = handles
  /\ SaveDatabase(The(db), ok)
  /\ LET e == IF ok THEN [pc |-> "opened", loc |-> [loc[p] EXCEPT !.database = db]]
                    ELSE Throw(loc[p], "write failed")
     IN /\ pc' = [pc EXCEPT ![p] = e.pc]
        /\ loc' = [loc EXCEPT ![p] = e.loc]
  /\ UNCHANGED <<clock, config, cache, auths, issued, masterKey, sqlJs, db, server>>

\* the statement of a mutating store function
Run(D, op, arg) ==
  CASE op = "storeAuthorization" -> UpsertAuthorization(D, arg)
    [] op = "updateAuthorizationTokens" ->
         UpdateTokensWhere(D, arg.merchant_domain, arg.access_token_encrypted,
                           arg.refresh_token_encrypted, arg.expires_at, now)
    [] op = "deleteAuthorization" -> DeleteWhere(D, arg)
    [] op = "cacheEndpoint" -> UpsertEndpoint(D, arg)
    [] op = "storeEncryptionKey" -> UpsertKey(D, arg, now)

\* a mutating store function after getDatabase returned: its statement on
\* the handle it was given, saveDatabase(database), return
Body(p, ok) ==
  /\ pc[p] = "opened"
  /\ loc[p].op # "getEncryptionKey"
  /\ handles' = [handles EXCEPT ![The(loc[p].database)] = Run(@, loc[p].op, The(loc[p].arg))]
  /\ SaveDatabase(The(loc[p].database), ok)
  /\ LET e == IF ok
                THEN [pc |-> IF loc[p].op = "storeEncryptionKey" THEN "keystored" ELSE "done",
                      loc |-> Done(loc[p], "ok", loc[p].op)]
                ELSE Throw(loc[p], "write failed")
     IN /\ pc' = [pc EXCEPT ![p] = e.pc]
        /\ loc' = [loc EXCEPT ![p] = e.loc]
  /\ UNCHANGED <<clock, config, cache, auths, issued, masterKey, sqlJs, db, server>>

\* getEncryptionKey after getDatabase returned: the key record, or null
KeyRead(p) ==
  /\ pc[p] = "opened"
  /\ loc[p].op = "getEncryptionKey"
  /\ pc' = [pc EXCEPT ![p] = "keyread"]
  /\ loc' = [loc EXCEPT ![p].key = SelectKey(handles[The(loc[p].database)])]
  /\ UNCHANGED <<clock, config, cache, auths, issued, masterKey, storage, server>>

\* getMasterKey after getEncryptionKey returned: without a record it
\* generates a key and calls storeEncryptionKey; with one it caches the
\* record's key and returns it
KeyLoaded(p) ==
  /\ pc[p] = "keyread"
  /\ IF loc[p].key = Absent
       THEN /\ \E k \in Keys \cup OtherKeys :
                 LET e == EnterGetDatabase([loc[p] EXCEPT !.op = "storeEncryptionKey",
                                                          !.arg = Some(k), !.key = Some(k)])
                 IN /\ pc' = [pc EXCEPT ![p] = e.pc]
                    /\ loc' = [loc EXCEPT ![p] = e.loc]
            /\ masterKey' = masterKey
       ELSE /\ masterKey' = loc[p].key
            /\ pc' = [pc EXCEPT ![p] = IF loc[p].caller = "main" THEN "inited" ELSE "done"]
            /\ loc' = [loc EXCEPT ![p] = Done([@ EXCEPT !.op = "getMasterKey"], "ok", "loaded")]
  /\ UNCHANGED <<clock, config, cache, auths, issued, storage, server>>

\* getMasterKey after storeEncryptionKey returned: masterKeyCache = key
KeyCached(p) ==
  /\ pc[p] = "keystored"
  /\ masterKey' = loc[p].key
  /\ pc' = [pc EXCEPT ![p] = IF loc[p].caller = "main" THEN "inited" ELSE "done"]
  /\ loc' = [loc EXCEPT ![p] = Done([@ EXCEPT !.op = "getMasterKey"], "ok", "created")]
  /\ UNCHANGED <<clock, config, cache, auths, issued, storage, server>>

\* the caller goes on to its next call
StoreReturn(p) ==
  /\ pc[p] = "done"
  /\ pc' = [pc EXCEPT ![p] = "idle"]
  /\ loc' = [loc EXCEPT ![p] = [InitLoc EXCEPT !.calls = loc[p].calls + 1]]
  /\ UNCHANGED <<clock, config, cache, auths, issued, masterKey, storage, server>>

\* no call made yet, no key cached
NoCalls ==
  /\ now = 0
  /\ ticks = 0
  /\ testEndpoint = None
  /\ demoMode = TRUE
  /\ max_poll_attempts = DEFAULT_MAX_POLL_ATTEMPTS
  /\ cache = [d \in Domains |-> Absent]
  /\ auths = [d \in Domains |-> Absent]
  /\ issued = 0
  /\ masterKey = Absent
  /\ pc = [p \in Procs |-> "idle"]
  /\ loc = [p \in Procs |-> InitLoc]

\* the modules as loaded: nothing opened; the file of an earlier run, or none
Loaded(images) ==
  /\ NoCalls
  /\ sqlJs = FALSE
  /\ db = Absent
  /\ handles = <<>>
  /\ disk \in {Absent} \cup {Some(D) : D \in images}

\* the file a run that created its key left
KeyedImage(k) == UpsertKey(InitializeSchema(NewDatabase), k, 0)

InitStore ==
  /\ Loaded({KeyedImage(k) : k \in Keys})
  /\ server = "started"

NextStore ==
  \/ \E p \in Procs : pc[p] = "idle" /\ \E call \in StoreCalls : StoreCall(p, call)
  \/ \E p \in Procs : KeyStart(p, "initEncryption")
  \/ \E p \in Procs : LibLoaded(p)
  \/ \E p \in Procs : LibFailed(p)
  \/ \E p \in Procs, ok \in BOOLEAN : SchemaDone(p, ok)
  \/ \E p \in Procs, ok \in BOOLEAN : Body(p, ok)
  \/ \E p \in Procs : KeyRead(p)
  \/ \E p \in Procs : KeyLoaded(p)
  \/ \E p \in Procs : KeyCached(p)
  \/ \E p \in Procs : StoreReturn(p)

SpecStore == InitStore /\ [][NextStore]_vars

\* initEncryption calls alone, on a database that reads have opened and
\* that holds no key record yet; every write to the file succeeds
InitKey ==
  /\ NoCalls
  /\ Opened
  /\ server = "started"

NextKey ==
  \/ \E p \in Procs : KeyStart(p, "initEncryption")
  \/ \E p \in Procs : KeyRead(p)
  \/ \E p \in Procs : KeyLoaded(p)
  \/ \E p \in Procs : Body(p, TRUE)
  \/ \E p \in Procs : KeyCached(p)
  \/ \E p \in Procs : StoreReturn(p)

SpecKey == InitKey /\ [][NextKey]_vars

----------------------------------------------------------------------------
(* Start-up (index.ts): main awaits testEncryption, which initialises the   *)
(* key through the database module, and starts the server afterwards        *)

\* testEncryption after initEncryption returned: encrypt a sample, decrypt
\* it, compare; any exception makes it return false
SelfTest(p) ==
  /\ pc[p] = "inited"
  /\ \E iv \in IVs :
       LET sample == <<"a">>
           r == IF masterKey = Absent \/ The(masterKey) \in BadKeys
                  THEN FALSE
                  ELSE LET dec == DecryptText(EncryptText(sample, iv))
                       IN dec.ok /\ dec.text = sample
       IN loc' = [loc EXCEPT ![p].test = Some(r)]
  /\ pc' = [pc EXCEPT ![p] = "tested"]
  /\ UNCHANGED <<clock, config, cache, auths, issued, masterKey, storage, server>>

\* main that starts the server whatever testEncryption returned
AfterTestUnchecked(t, startOk) == IF startOk THEN "started" ELSE "exited"

\* main after testEncryption: process.exit(1) unless it returned true, then
\* startServer(), whose exception ends the process as well
AfterTest(t, startOk) == IF t /\ startOk THEN "started" ELSE "exited"

MainAfterTest(p, startOk) ==
  /\ pc[p] = "tested"
  /\ server = "down"
  /\ server' = AfterTest(The(loc[p].test), startOk)
  /\ pc' = [pc EXCEPT ![p] = "done"]
  /\ loc' = [loc EXCEPT ![p] = Done([@ EXCEPT !.op = "main"], "ok", "main")]
  /\ UNCHANGED <<clock, config, cache, auths, issued, masterKey, storage>>

\* the files an earlier run can have left: its key record, sound or not,
\* and the authorizations it stored
BootImages ==
  LET ks == Keys \cup OtherKeys \cup BadKeys
  IN {KeyedImage(k) : k \in ks}
       \cup {UpsertAuthorization(KeyedImage(k), AuthArg(d, 0)) : k \in ks, d \in Domains}

InitBoot ==
  /\ Loaded(BootImages)
  /\ server = "down"

BootProcs == {"p1"}

NextBoot ==
  \/ \E p \in BootProcs : server = "down" /\ KeyStart(p, "main")
  \/ \E p \in BootProcs : LibLoaded(p)
  \/ \E p \in BootProcs : LibFailed(p)
  \/ \E p \in BootProcs, ok \in BOOLEAN : SchemaDone(p, ok)
  \/ \E p \in BootProcs, ok \in BOOLEAN : Body(p, ok)
  \/ \E p \in BootProcs : KeyRead(p)
  \/ \E p \in BootProcs : KeyLoaded(p)
  \/ \E p \in BootProcs : KeyCached(p)
  \/ \E p \in BootProcs : SelfTest(p)
  \/ \E p \in BootProcs, startOk \in BOOLEAN : MainAfterTest(p, startOk)

SpecBoot == InitBoot /\ [][NextBoot]_vars

----------------------------------------------------------------------------
(* What the tools answer: authorize, check-authorization and revoke calls   *)
(* of one agent, on a database that starts empty                            *)

\* getAuthorizationInfo that returns the stored row with the flag
GetAuthorizationInfoWholeRow(a, d) ==
  IF a[d] = Absent THEN [authorized |-> FALSE] ELSE [authorized |-> TRUE] @@ The(a[d])

\* getAuthorizationInfo: the flag and five columns of the row
GetAuthorizationInfo(a, d) ==
  IF a[d] = Absent
    THEN [authorized |-> FALSE]
    ELSE LET auth == The(a[d])
         IN [authorized     |-> TRUE,
             customer_email |-> auth.customer_email,
             customer_id    |-> auth.customer_id,
             scopes         |-> auth.scopes,
             authorized_at  |-> auth.created_at,
             expires_at     |-> auth.expires_at]

\* handleCheckAuthorization's text: every field of info but the flag,
\* customer_id left out and the domain added; the two times are printed as
\* ISO dates of the same milliseconds
InfoText(info, d) == [f \in (DOMAIN info) \ {"authorized", "customer_id"} |-> info[f]]
                       @@ [authorized |-> TRUE, domain |-> d]

\* handleCheckAuthorization
CheckAuth(p, d) ==
  /\ pc[p] = "idle"
  /\ LET info == GetAuthorizationInfo(auths, d)
         l    == [InitLoc EXCEPT !.op = "check", !.dom = d, !.auth = auths[d],
                                 !.info = Some(info)]
     IN loc' = [loc EXCEPT ![p] =
                  IF info.authorized THEN Done(l, "info", InfoText(info, d))
                                     ELSE Done(l, "notAuthorized", d)]
  /\ pc' = [pc EXCEPT ![p] = "done"]
  /\ UNCHANGED <<clock, config, fixed, cache, auths, issued>>

NextInfo ==
  \/ \E p \in Authorizers, d \in AuthDomains, email \in ReauthEmails, scopes \in GrantedScopes :
       AuthStart(p, d, email, scopes)
  \/ \E p \in Authorizers : DiscCaps(p, {r \in AuthCapsResponses : ~r.ok})
  \/ \E p \in Authorizers : AuthInitiated(p)
  \/ \E p \in Authorizers : AuthInitFailed(p)
  \/ \E p \in Authorizers : AuthPoll(p, GrantingPolls)
  \/ \E p \in Authorizers :
       AuthExchangeOk(p, AuthLifetimes, GrantedScopes, ReauthEmails, {0})
  \/ \E p \in Authorizers : AuthExchangeFail(p)
  \/ \E p \in Authorizers, d \in AuthDomains : CheckAuth(p, d)
  \/ \E p \in Authorizers, d \in AuthDomains : RevStart(p, d)
  \/ \E p \in Authorizers : RevRefreshOk(p)
  \/ \E p \in Authorizers : RevRefreshFail(p)
  \/ \E p \in Authorizers : RevRemote(p)
  \/ \E p \in Authorizers : Return(p)
  \/ TickAuth

SpecInfo == InitAuth /\ [][NextInfo]_vars

----------------------------------------------------------------------------
(* Every tool of one agent on one domain, discovery not in demo mode,       *)
(* while the other domain holds an authorization and a cache entry          *)

FrameDomains == {"a.com"}

InitFrame ==
  /\ InitCommon
  /\ testEndpoint = None
  /\ demoMode = FALSE
  /\ cache \in [Domains -> {Some(r) : r \in CacheRows} \cup {Absent}]
  /\ cache["b.com"] # Absent
  /\ auths \in [Domains -> {Some(r) : r \in StoredRows} \cup {Absent}]
  /\ auths["b.com"] # Absent
  /\ issued = 1

NextFrame ==
  \/ \E p \in Authorizers, d \in FrameDomains, op \in {"resolve", "discover"} : DiscStart(p, d, op)
  \/ \E p \in Authorizers : DiscDns(p)
  \/ \E p \in Authorizers : DiscWellKnown(p)
  \/ \E p \in Authorizers : DiscHeader(p)
  \/ \E p \in Authorizers : DiscCaps(p, AuthCapsResponses)
  \/ \E p \in Authorizers, d \in FrameDomains, email \in ReauthEmails, scopes \in GrantedScopes :
       AuthStart(p, d, email, scopes)
  \/ \E p \in Authorizers : AuthInitiated(p)
  \/ \E p \in Authorizers : AuthInitFailed(p)
  \/ \E p \in Authorizers : AuthPoll(p, GrantingPolls)
  \/ \E p \in Authorizers :
       AuthExchangeOk(p, AuthLifetimes, GrantedScopes, ReauthEmails, {0})
  \/ \E p \in Authorizers : AuthExchangeFail(p)
  \/ \E p \in Authorizers, d \in FrameDomains : TokStart(p, d)
  \/ \E p \in Authorizers : TokRefreshOk(p)
  \/ \E p \in Authorizers : TokRefreshFail(p)
  \/ \E p \in Authorizers, d \in FrameDomains : RevStart(p, d)
  \/ \E p \in Authorizers : RevRefreshOk(p)
  \/ \E p \in Authorizers : RevRefreshFail(p)
  \/ \E p \in Authorizers : RevRemote(p)
  \/ \E p \in Authorizers : Return(p)
  \/ TickTok

SpecFrame == InitFrame /\ [][NextFrame]_vars

----------------------------------------------------------------------------
(* An authorization the caller cancels while it is in flight *)

\* server.ts:540: the tool handler is registered as async (request): the
\* caller's cancellation of the request reaches the process while the call
\* initiates or polls, and nothing the call runs is handed it
Cancel(p) ==
  /\ pc[p] \in {"a_init", "a_poll"}
  /\ ~loc[p].aborted
  /\ loc' = [loc EXCEPT ![p].aborted = TRUE]
  /\ UNCHANGED <<pc, clock, config, fixed, cache, auths, issued>>

NextCancel ==
  \/ \E p \in Authorizers, d \in AuthDomains, email \in ReauthEmails, scopes \in GrantedScopes :
       AuthStart(p, d, email, scopes)
  \/ \E p \in Authorizers : DiscCaps(p, AuthCapsResponses)
  \/ \E p \in Authorizers : AuthInitiated(p)
  \/ \E p \in Authorizers : AuthInitFailed(p)
  \/ \E p \in Authorizers : Cancel(p)
  \/ \E p \in Authorizers : AuthPoll(p, AuthPolls)
  \/ \E p \in Authorizers :
       AuthExchangeOk(p, AuthLifetimes, GrantedScopes, ReauthEmails, {0})
  \/ \E p \in Authorizers : AuthExchangeFail(p)
  \/ \E p \in Authorizers : Return(p)
  \/ TickAuth

SpecCancel == InitAuth /\ [][NextCancel]_vars

----------------------------------------------------------------------------
(* Authorizations under a configuration file that sets max_poll_attempts *)

\* config.ts:41: the file's values override the defaults
ConfiguredCaps == {1, 2, DEFAULT_MAX_POLL_ATTEMPTS}

InitCfg ==
  /\ InitCalls
  /\ max_poll_attempts \in ConfiguredCaps
  /\ testEndpoint = None
  /\ demoMode
  /\ cache = [d \in Domains |-> Absent]
  /\ auths = [d \in Domains |-> Absent]
  /\ issued = 0

NextCfg ==
  \/ \E p \in Authorizers, d \in AuthDomains, email \in ReauthEmails, scopes \in GrantedScopes :
       AuthStart(p, d, email, scopes)
  \/ \E p \in Authorizers : DiscCaps(p, AuthCapsResponses)
  \/ \E p \in Authorizers : AuthInitiated(p)
  \/ \E p \in Authorizers : AuthInitFailed(p)
  \/ \E p \in Authorizers : AuthPoll(p, AuthPolls)
  \/ \E p \in Authorizers :
       AuthExchangeOk(p, AuthLifetimes, GrantedScopes, ReauthEmails, {0})
  \/ \E p \in Authorizers : AuthExchangeFail(p)
  \/ \E p \in Authorizers : Return(p)
  \/ TickAuth

SpecCfg == InitCfg /\ [][NextCfg]_vars

----------------------------------------------------------------------------
(* Authorize calls that fail at every step, not in demo mode, the user      *)
(* left waiting up to the attempt cap, with or without a record of an       *)
(* earlier run                                                              *)

InitFail ==
  /\ InitCommon
  /\ testEndpoint = None
  /\ demoMode = FALSE
  /\ cache = [d \in Domains |-> Absent]
  /\ auths \in [Domains -> {Some(r) : r \in StoredRows} \cup {Absent}]
  /\ auths["b.com"] = Absent
  /\ issued = 1

NextFail ==
  \/ \E p \in Authorizers, d \in AuthDomains, email \in ReauthEmails, scopes \in {<<"orders", "loyalty">>} :
       AuthStart(p, d, email, scopes)
  \/ \E p \in Authorizers : DiscDns(p)
  \/ \E p \in Authorizers : DiscWellKnown(p)
  \/ \E p \in Authorizers : DiscHeader(p)
  \/ \E p \in Authorizers : DiscCaps(p, AuthCapsResponses)
  \/ \E p \in Authorizers : AuthInitiated(p)
  \/ \E p \in Authorizers : AuthInitFailed(p)
  \/ \E p \in Authorizers : AuthPollUpTo(p, AuthPolls, DEFAULT_MAX_POLL_ATTEMPTS)
  \/ \E p \in Authorizers :
       AuthExchangeOk(p, {3600}, {<<"orders", "loyalty">>}, ReauthEmails, {0})
  \/ \E p \in Authorizers : AuthExchangeFail(p)
  \/ \E p \in Authorizers : Return(p)

SpecFail == InitFail /\ [][NextFail]_vars

----------------------------------------------------------------------------
(* The data tools and getValidAccessToken, on domains with and without a    *)
(* record of an earlier run                                                 *)

NextData ==
  \/ \E p \in Authorizers, d \in Domains, tool \in DataTools : DataStart(p, d, tool)
  \/ \E p \in Authorizers, d \in Domains : TokStart(p, d)
  \/ \E p \in Authorizers : TokRefreshOk(p)
  \/ \E p \in Authorizers : TokRefreshFail(p)
  \/ \E p \in Authorizers : DataAnswer(p)
  \/ \E p \in Authorizers : Return(p)
  \/ TickTok

SpecData == InitTok /\ [][NextData]_vars

----------------------------------------------------------------------------
(* Refreshes whose response reports another customer, scope and endpoint    *)

\* what a token response carries besides the tokens (types.ts TokenResponse)
RefreshReports ==
  {Some(r) : r \in [scope : {<<"orders">>, <<"loyalty">>},
                    email : {<<"u", "shop", "io">>, <<"v", "shop", "io">>},
                    customer_id : {"cust", "other"}]}

NextRefresh ==
  \/ \E p \in Procs, d \in TokDomains : TokStart(p, d)
  \/ \E p \in Procs : TokRefreshOkWith(p, {60, 3600}, RefreshReports)
  \/ \E p \in Procs : TokRefreshFail(p)
  \/ \E p \in Procs : Return(p)
  \/ TickTok

SpecRefresh == InitTok /\ [][NextRefresh]_vars

----------------------------------------------------------------------------
(* Two authorize calls at a time for two customers, the token endpoint      *)
(* naming the customer who asked                                            *)

RaceEmails == {<<"u", "shop", "io">>, <<"v", "shop", "io">>}

\* the token response names the email of the initiation request
AuthExchangeEcho(p) ==
  AuthExchangeOk(p, {3600}, {<<"orders">>}, {loc[p].email}, {0})

NextRace ==
  \/ \E p \in Procs, d \in AuthDomains, email \in RaceEmails :
       AuthStart(p, d, email, <<"orders">>)
  \/ \E p \in Procs : DiscCaps(p, {r \in AuthCapsResponses : ~r.ok})
  \/ \E p \in Procs : AuthInitiated(p)
  \/ \E p \in Procs : AuthInitFailed(p)
  \/ \E p \in Procs : AuthPoll(p, GrantingPolls)
  \/ \E p \in Procs : AuthExchangeEcho(p)
  \/ \E p \in Procs : AuthExchangeFail(p)
  \/ \E p \in Procs : Return(p)
  \/ TickAuth

SpecRace == InitAuth /\ [][NextRace]_vars

----------------------------------------------------------------------------
(* Claims about discovery, checked under SpecDisc *)

\* where each source's endpoint comes from
EndpointOfSource(src, l) ==
  CASE src = "override"  -> {testEndpoint}
    [] src = "demo"      -> {DemoEndpoint}
    [] src = "cache"     -> {r.endpoint : r \in l.cacheRow}
    [] src = "dns"       -> {"https://dns1", "https://dns2"}
    [] src = "wellknown" -> {"https://wk"}
    [] src = "header"    -> {"https://hdr"}

\* C1: discoverSCPEndpoint consults override, demo mode, cache, DNS TXT,
\* well-known GET and HEAD header strictly in this order; the first source
\* that hits gives the result and no later source is consulted; it returns
\* null only when all six sources missed.
C1_DiscoveryOrder ==
  \A p \in Procs :
    LET l == loc[p]
        n == Len(l.log)
    IN /\ n <= Len(Order)
       /\ \A i \in 1..n : l.log[i].src = Order[i]
       /\ \A i \in 1..n : l.log[i].hit => i = n
       /\ (n > 0 /\ l.log[n].hit) <=> (l.ep # None)
       /\ l.ep # None => l.ep \in EndpointOfSource(l.log[n].src, l)
       /\ l.result.kind = "endpoint" => l.result.value = l.ep /\ l.ep # None
       /\ l.result.kind = "notfound" =>
            /\ n = Len(Order)
            /\ \A i \in 1..n : ~l.log[i].hit

\* a call went through all six sources and the last one, the header, hit
C1_Witness ==
  \E p \in Procs :
    /\ pc[p] = "done"
    /\ loc[p].op = "resolve"
    /\ Len(loc[p].log) = 6
    /\ loc[p].log[6].hit
    /\ loc[p].result.kind = "endpoint"

\* C2: while the test-endpoint override is set or demo mode is enabled, no
\* discovery operation creates or modifies an endpoint cache entry.
C2_NoCacheWriteUnderOverride ==
  [][(testEndpoint # None \/ demoMode) => cache' = cache]_vars

\* C3: an endpoint_cache row whose age (now - discovered_at) exceeds ttl
\* seconds is not returned by getCachedEndpoint: discovery counts the cache as
\* a miss and goes on to the DNS query; a row it does return is not older.
C3_StaleCacheIsAbsent ==
  \A p \in Procs :
    LET l == loc[p]
    IN (Len(l.log) >= 3 /\ l.cacheRow # Absent) =>
         LET row == The(l.cacheRow)
             stale == l.cacheAt - row.discovered_at > row.ttl * MS_PER_SEC
         IN /\ stale => /\ ~l.log[3].hit
                        /\ Len(l.log) >= 4
                        /\ l.log[4].src = "dns"
                        /\ l.nNet >= 1
            /\ l.log[3].hit => ~stale /\ l.ep = row.endpoint

\* a call found a row older than its ttl and went on to DNS
C3_Witness ==
  \E p \in Procs :
    /\ loc[p].cacheRow # Absent
    /\ loc[p].cacheAt - The(loc[p].cacheRow).discovered_at
         > The(loc[p].cacheRow).ttl * MS_PER_SEC
    /\ Len(loc[p].log) >= 4
    /\ loc[p].log[4].src = "dns"

----------------------------------------------------------------------------
(* Claims about the token lifecycle, checked under SpecTok *)

\* C4: of two getValidAccessToken calls running at the same time for one
\* domain whose row is within the refresh threshold, at most one has a
\* refresh request in flight, so the stored refresh token is never presented
\* to the token endpoint by both.
C4_AtMostOneRefresh ==
  \A p, q \in Procs :
    (/\ p # q
     /\ pc[p] = "t_refresh"
     /\ pc[q] = "t_refresh"
     /\ loc[p].dom = loc[q].dom)
      => loc[p].presented # loc[q].presented

\* C5: on an existing row getValidAccessToken sends no refresh request and
\* returns the decryption of the stored access token when
\* expires_at - now >= 5 minutes; it sends exactly one refresh request when
\* expires_at - now < 5 minutes, and the token it then returns is the
\* decryption of the access token the refreshed row holds.
C5_RefreshOnRead ==
  \A p \in Procs :
    LET l == loc[p]
    IN (l.op = "getToken" /\ l.auth # Absent) =>
         LET row == The(l.auth)
             due == row.expires_at - l.checkedAt < TOKEN_REFRESH_THRESHOLD
         IN /\ ~due => /\ l.nRefresh = 0
                       /\ l.nWrites = 0
                       /\ pc[p] = "done"
                       /\ l.result.kind = "token"
                       /\ l.result.value =
                            DecryptToken(row.access_token_encrypted).token
            /\ due => /\ l.nRefresh = 1
                      /\ l.result.kind = "token" =>
                           /\ l.refresh = "ok"
                           /\ l.updated # Absent
                           /\ The(l.updated).access_token_encrypted
                                # row.access_token_encrypted
                           /\ l.result.value =
                                DecryptToken(The(l.updated).access_token_encrypted).token
                           /\ l.result.value
                                # DecryptToken(row.access_token_encrypted).token

\* a call refreshed and returned the new token
C5_Witness ==
  \E p \in Procs :
    /\ pc[p] = "done"
    /\ loc[p].op = "getToken"
    /\ loc[p].refresh = "ok"
    /\ loc[p].result.kind = "token"

\* the step in which call p's refresh succeeds and the row is rewritten
RefreshWrites(p) ==
  /\ pc[p] = "t_refresh"
  /\ loc'[p].refresh = "ok"
  /\ auths[loc[p].dom] # Absent

\* C6 as claimed: after every successful refresh the row's new expires_at is
\* strictly later than the expires_at it had before, whatever lifetime the
\* token endpoint reports.
C6_ExpiryStrictlyLater ==
  [][\A p \in Procs :
       RefreshWrites(p) =>
         The(auths'[loc[p].dom]).expires_at > The(auths[loc[p].dom]).expires_at]_vars

\* C6 as amended: after a successful refresh the new expires_at is the time
\* of the refresh plus the reported lifetime, and it is strictly later than
\* the expires_at the call read and decided the refresh on, whenever the
\* reported lifetime is at least the refresh threshold of 300 seconds.
C6_ExpiryLaterForLongLifetime ==
  [][\A p \in Procs :
       RefreshWrites(p) =>
         /\ The(auths'[loc[p].dom]).expires_at = now + loc'[p].lifetime * MS_PER_SEC
         /\ loc'[p].lifetime * MS_PER_SEC >= TOKEN_REFRESH_THRESHOLD =>
              The(auths'[loc[p].dom]).expires_at > The(loc[p].auth).expires_at]_vars

\* a refresh with a lifetime of at least the threshold has rewritten the row
C6_Witness ==
  \E p \in Procs :
    /\ loc[p].refresh = "ok"
    /\ loc[p].lifetime * MS_PER_SEC >= TOKEN_REFRESH_THRESHOLD
    /\ loc[p].updated # Absent
    /\ The(loc[p].updated).expires_at > The(loc[p].auth).expires_at

\* C7: when the refresh request of getValidAccessToken fails, the call ends
\* with the error, sends no further request, returns no token and has not
\* written the authorization row.
C7_RefreshFailureIsFatal ==
  [][\A p \in Procs :
       (pc[p] = "t_refresh" /\ loc'[p].refresh = "failed") =>
         /\ auths' = auths
         /\ pc'[p] = "done"
         /\ loc'[p].result.kind = "error"
         /\ loc'[p].nRefresh = 1
         /\ loc'[p].nNet = loc[p].nNet
         /\ loc'[p].nWrites = 0]_vars

\* a call whose refresh request failed has ended
C7_Witness ==
  \E p \in Procs :
    /\ pc[p] = "done"
    /\ loc[p].refresh = "failed"
    /\ loc[p].result.kind = "error"


----------------------------------------------------------------------------
(* Claims about the authorize tool, checked under SpecAuth *)

\* the step in which call p enters handleAuthorize and reads the store
EntersAuthorize(p) ==
  /\ pc[p] = "idle"
  /\ pc'[p] # "idle"
  /\ loc'[p].op = "authorize"

\* the email is one the handler refuses as a placeholder
MentionsExample(email) == \E i \in DOMAIN email : email[i] = "example"

\* the call finds a record with its own email and its own set of scopes
SameIdentityAndScopes(p) ==
  LET d == loc'[p].dom
  IN /\ auths[d] # Absent
     /\ The(auths[d]).customer_email = loc'[p].email
     /\ Range(The(auths[d]).scopes) = Range(loc'[p].scopes)

\* the call is answered at once, without discovery, network or store write
AnsweredLocally(p, kind) ==
  /\ pc'[p] = "done"
  /\ loc'[p].result.kind = kind
  /\ loc'[p].log = <<>>
  /\ loc'[p].nNet = 0
  /\ auths' = auths
  /\ cache' = cache

OtherIdentity(p) ==
  LET d == loc'[p].dom
  IN /\ auths[d] # Absent
     /\ The(auths[d]).customer_email # loc'[p].email

CapabilitiesAnswered(p) ==
  /\ pc[p] = "d_caps"
  /\ pc'[p] # "d_caps"
  /\ loc[p].op = "authorize"

\* the requested scopes that the descriptor the call now holds does not list
Missing(p) ==
  {x \in Range(loc[p].scopes) : x \notin The(loc'[p].caps).scopes_supported}

\* C17: when the capability descriptor is not null and lists supported
\* scopes, a requested scope missing from the list makes authorize throw an
\* error that enumerates exactly the missing scopes, and no initiation
\* request is sent; with a null descriptor, or one without list, the
\* initiation request is sent without validation.
C17_ScopeValidation ==
  [][\A p \in Procs :
       CapabilitiesAnswered(p)
         => IF /\ loc'[p].caps # Absent
               /\ The(loc'[p].caps).has_list
               /\ Missing(p) # {}
              THEN /\ pc'[p] = "done"
                   /\ loc'[p].result.kind = "error"
                   /\ Head(loc'[p].result.value) = "Unsupported scopes"
                   /\ Range(Tail(loc'[p].result.value)) = Missing(p)
                   /\ Len(Tail(loc'[p].result.value)) = Cardinality(Missing(p))
                   /\ loc'[p].nNet = loc[p].nNet
                   /\ loc'[p].polls = 0
              ELSE /\ pc'[p] = "a_init"
                   /\ loc'[p].nNet = loc[p].nNet + 1]_vars

\* a request for orders and loyalty was refused because the descriptor lists
\* orders only
C17_Witness ==
  \E p \in Procs :
    /\ pc[p] = "done"
    /\ loc[p].op = "authorize"
    /\ Len(loc[p].scopes) = 2
    /\ loc[p].caps # Absent
    /\ The(loc[p].caps).has_list
    /\ "loyalty" \notin The(loc[p].caps).scopes_supported
    /\ loc[p].result.kind = "error"
    /\ loc[p].result.value = <<"Unsupported scopes", "loyalty">>

----------------------------------------------------------------------------
(* Claims about the stored record, checked under SpecReauth *)

\* call p finishes in this step
Finishes(p) == pc[p] # "done" /\ pc'[p] = "done"

\* the row of d after the step carries what call p has just obtained
CarriesNewest(d, p) ==
  LET new == The(auths'[d])
      acc == DecryptToken(new.access_token_encrypted)
      ref == DecryptToken(new.refresh_token_encrypted)
  IN /\ loc'[p].dom = d
     /\ acc.ok /\ acc.token = AccessTokenNo(issued)
     /\ ref.ok /\ ref.token = RefreshTokenNo(issued)
     /\ new.expires_at = now + loc'[p].lifetime * MS_PER_SEC
     /\ new.updated_at = now
     /\ IF loc'[p].op = "authorize"
          THEN new.scopes = loc'[p].granted
          ELSE new.scopes = The(auths[d]).scopes

\* C10: a record's created_at is the time of the first successful
\* authorization and never changes under re-authorizations and refreshes,
\* while every write puts the newest tokens, expires_at, scopes and
\* updated_at in the record.
C10_CreatedAtImmutable ==
  [][\A d \in Domains :
       /\ auths[d] = Absent /\ auths'[d] # Absent
            => /\ The(auths'[d]).created_at = now
               /\ \E p \in Procs : Finishes(p) /\ loc'[p].op = "authorize"
                                     /\ CarriesNewest(d, p)
       /\ auths[d] # Absent
            => /\ auths'[d] # Absent
               /\ The(auths'[d]).created_at = The(auths[d]).created_at
               /\ auths'[d] # auths[d]
                    => \E p \in Procs : Finishes(p) /\ CarriesNewest(d, p)
       /\ \A p \in Procs :
            Finishes(p) /\ loc'[p].dom = d /\ loc'[p].nWrites > 0
              => auths'[d] # Absent /\ CarriesNewest(d, p)]_vars

\* a re-authorization has been stored over a record created earlier
C10_Witness ==
  \E p \in Procs :
    /\ pc[p] = "done"
    /\ loc[p].result.kind = "connected"
    /\ loc[p].existing # Absent
    /\ auths[loc[p].dom] # Absent
    /\ The(auths[loc[p].dom]).updated_at > The(auths[loc[p].dom]).created_at
    /\ The(auths[loc[p].dom]).scopes # The(loc[p].existing).scopes

----------------------------------------------------------------------------
(* Claims about the revoke tool, checked under SpecRev *)

\* call p is a revoke that found a record and returns or throws in this step
RevokeEnds(p) ==
  /\ Finishes(p)
  /\ loc'[p].op = "revoke"
  /\ loc'[p].auth # Absent

\* C11: a revoke on an existing record ends with the record deleted and with
\* the success answer, whether the remote revocation was accepted, failed, or
\* was never sent because no token could be obtained.
C11_RevokeAlwaysDeletes ==
  [][\A p \in Procs :
       RevokeEnds(p)
         => /\ auths'[loc'[p].dom] = Absent
            /\ loc'[p].result.kind = "revoked"]_vars

\* a revoke has ended after its remote revocation request failed
C11_Witness ==
  \E p \in Procs :
    /\ pc[p] = "done"
    /\ loc[p].op = "revoke"
    /\ loc[p].remote = "failed"
    /\ loc[p].result.kind = "revoked"
    /\ auths[loc[p].dom] = Absent

\* C12 as stated: every revoke on an existing record has sent a revocation
\* request to the record's endpoint by the time it deletes the record, also
\* when the token needed a refresh and the refresh failed.
C12_RemoteRevocationAttempted ==
  [][\A p \in Procs :
       RevokeEnds(p)
         => /\ loc'[p].revokes >= 1
            /\ loc'[p].revokeTo = The(loc'[p].auth).endpoint]_vars

\* C13: a revoke on a domain without record throws the not-authorized error
\* at once, sends nothing and writes nothing.
C13_RevokeWithoutRecordFails ==
  [][\A p \in Procs :
       /\ pc[p] = "idle" /\ pc'[p] # "idle"
       /\ loc'[p].op = "revoke"
       /\ auths[loc'[p].dom] = Absent
       => /\ pc'[p] = "done"
          /\ loc'[p].result = [kind |-> "error", value |-> "No authorization found"]
          /\ loc'[p].nNet = 0
          /\ loc'[p].revokes = 0
          /\ auths' = auths
          /\ cache' = cache]_vars

\* a revoke that failed for want of a record, next to the successful revoke
\* that deleted it
C13_Witness ==
  \E p \in Procs, q \in Procs :
    /\ p # q
    /\ pc[p] = "done" /\ loc[p].op = "revoke" /\ loc[p].result.kind = "revoked"
    /\ pc[q] = "done" /\ loc[q].op = "revoke" /\ loc[q].auth = Absent
    /\ loc[q].dom = loc[p].dom
    /\ loc[q].result.kind = "error"

----------------------------------------------------------------------------
(* Claims about pollAuthorization, checked under SpecPoll *)

\* the call is inside pollAuthorization, or has left it
Polling(p) == loc[p].op = "poll" /\ pc[p] # "idle"

\* a poll answer that carries a code with the status authorized
Authorized(r) == r.ok /\ r.status = "authorized" /\ r.code # None

\* a poll answer that was received and neither grants nor ends the flow
NonTerminal(r) ==
  r.ok /\ ~Authorized(r) /\ r.status # "denied" /\ r.status # "expired"

Last(q) == q[Len(q)]

TimedOut(p) ==
  /\ pc[p] = "done"
  /\ loc[p].result.kind = "error"
  /\ loc[p].result.value = <<"Authorization timeout">>

\* C14: when n answers that leave the flow pending are followed by an
\* authorized answer with code K, pollAuthorization has sent n+1 poll
\* requests, has waited n intervals, and returns K.
C14_PollsAndWaits ==
  \A p \in Procs :
    Polling(p) /\ loc[p].seen # <<>> /\ Authorized(Last(loc[p].seen))
      => /\ \A i \in 1..(Len(loc[p].seen) - 1) : NonTerminal(loc[p].seen[i])
         /\ pc[p] = "done"
         /\ loc[p].result.kind = "code"
         /\ loc[p].result.value = Last(loc[p].seen).code
         /\ loc[p].polls = Len(loc[p].seen)
         /\ loc[p].attempts = Len(loc[p].seen) - 1

\* pending, pending, authorized(K): K is returned on the third poll after
\* two intervals
C14_Witness ==
  \E p \in Procs :
    /\ Polling(p) /\ pc[p] = "done"
    /\ Len(loc[p].seen) = 3
    /\ loc[p].seen[1].status = "pending"
    /\ loc[p].seen[2].status = "pending"
    /\ Authorized(loc[p].seen[3])
    /\ loc[p].result.kind = "code"
    /\ loc[p].attempts = 2
    /\ loc[p].polls = 3

\* C15: pollAuthorization never sends more than maxAttempts poll requests,
\* every answer that leaves it polling raises attempts, which stays below
\* maxAttempts while it polls, and when maxAttempts answers have all left
\* the flow pending it throws the timeout.
C15_PollingBounded ==
  /\ [](\A p \in Procs :
          Polling(p)
            => /\ loc[p].polls <= loc[p].maxAttempts
               /\ Len(loc[p].seen) <= loc[p].polls
               /\ pc[p] = "a_poll" => loc[p].attempts < loc[p].maxAttempts
               /\ (/\ Len(loc[p].seen) = loc[p].maxAttempts
                   /\ \A i \in 1..Len(loc[p].seen) : NonTerminal(loc[p].seen[i]))
                    => TimedOut(p)
               /\ TimedOut(p) => loc[p].polls = loc[p].maxAttempts)
  /\ [][\A p \in Procs :
          pc[p] = "a_poll" /\ pc'[p] = "a_poll" /\ loc'[p] # loc[p]
            => /\ loc'[p].attempts = loc[p].attempts + 1
               /\ loc'[p].maxAttempts = loc[p].maxAttempts]_vars

\* a call with a cap of two has timed out after two pending answers
C15_Witness ==
  \E p \in Procs :
    /\ Polling(p) /\ TimedOut(p)
    /\ loc[p].maxAttempts = 2
    /\ loc[p].polls = 2
    /\ Len(loc[p].seen) = 2

\* C16: an answer with status authorized and a code returns the code; denied
\* throws the denied error with the server's reason; expired throws the
\* expired error; any other answer that was received, among them authorized
\* without a code and unknown statuses, leaves the flow pending: the next
\* poll follows, unless the attempt cap is reached.
C16_PollClassification ==
  \A p \in Procs :
    Polling(p) /\ loc[p].seen # <<>> /\ Last(loc[p].seen).ok
      => LET r == Last(loc[p].seen)
         IN IF r.status = "authorized" /\ r.code # None
              THEN /\ pc[p] = "done"
                   /\ loc[p].result.kind = "code"
                   /\ loc[p].result.value = r.code
            ELSE IF r.status = "denied"
              THEN /\ pc[p] = "done"
                   /\ loc[p].result.kind = "error"
                   /\ loc[p].result.value[1] = "Authorization denied"
                   /\ r.reason # None => loc[p].result.value[2] = r.reason
            ELSE IF r.status = "expired"
              THEN /\ pc[p] = "done"
                   /\ loc[p].result.kind = "error"
                   /\ loc[p].result.value = <<"Authorization request expired">>
            ELSE \/ /\ pc[p] = "a_poll"
                    /\ loc[p].polls = Len(loc[p].seen) + 1
                 \/ /\ TimedOut(p)
                    /\ loc[p].attempts = loc[p].maxAttempts

\* polling goes on after an authorized answer without code and after an
\* unknown status
C16_Witness ==
  \E p \in Procs :
    /\ Polling(p) /\ pc[p] = "a_poll"
    /\ Len(loc[p].seen) = 2
    /\ loc[p].seen[1].status = "authorized" /\ loc[p].seen[1].code = None
    /\ loc[p].seen[2].status = "unknown"

----------------------------------------------------------------------------
(* Claims about failures during discovery, checked under SpecDisc *)

\* the step in which the resolver answers call p
DnsAnswered(p) == pc[p] = "d_dns" /\ pc'[p] # "d_dns"

\* C18: a resolver error ENOTFOUND or ENODATA is a miss: the well-known
\* request follows, and the header request after a well-known miss; any other
\* resolver error ends the call with that error, without a further request
\* and without a write to the endpoint cache.
C18_DnsFailures ==
  [][\A p \in Procs :
       /\ DnsAnswered(p) /\ loc'[p].dnsCode \in {"ENOTFOUND", "ENODATA"}
            => /\ pc'[p] = "d_wk"
               /\ loc'[p].nNet = loc[p].nNet + 1
               /\ Last(loc'[p].log).src = "wellknown"
               /\ cache' = cache
       /\ DnsAnswered(p) /\ loc'[p].dnsCode \notin {"ENOTFOUND", "ENODATA", "records"}
            => /\ pc'[p] = "done"
               /\ loc'[p].result.kind = "error"
               /\ loc'[p].nNet = loc[p].nNet
               /\ loc'[p].log = loc[p].log
               /\ loc'[p].ep = None
               /\ cache' = cache
       /\ pc[p] = "d_wk" /\ pc'[p] # "d_wk" /\ loc'[p].ep = None
            => /\ pc'[p] = "d_head"
               /\ loc'[p].nNet = loc[p].nNet + 1]_vars

\* a discoverWithCapabilities call has ended with the resolver's timeout
C18_Witness ==
  \E p \in Procs :
    /\ pc[p] = "done"
    /\ loc[p].op = "discover"
    /\ loc[p].dnsCode = "ETIMEOUT"
    /\ loc[p].result.kind = "error"
    /\ Last(loc[p].log).src = "dns"

\* C20: when the capability request fails, discoverWithCapabilities returns
\* the endpoint that was resolved, with a null descriptor, and throws nothing.
C20_CapabilityFailureIsNotFatal ==
  \A p \in Procs :
    pc[p] = "done" /\ loc[p].op = "discover" /\ loc[p].capsOk = "failed"
      => /\ loc[p].result.kind = "discovery"
         /\ loc[p].result.value = loc[p].ep
         /\ loc[p].ep # None
         /\ Last(loc[p].log).hit
         /\ loc[p].caps = Absent

\* an endpoint found in a TXT record is returned although the capability
\* request failed
C20_Witness ==
  \E p \in Procs :
    /\ pc[p] = "done"
    /\ loc[p].op = "discover"
    /\ loc[p].capsOk = "failed"
    /\ Last(loc[p].log).src = "dns"
    /\ loc[p].result.kind = "discovery"
    /\ loc[p].caps = Absent

----------------------------------------------------------------------------
(* Claims about TXT records, checked under SpecTxt *)

\* position i of text t is where an endpoint key with an https url begins
HasUrlAt(t, i) ==
  /\ i + 2 <= Len(t)
  /\ t[i] = "endpoint=" /\ t[i + 1] = "https://" /\ t[i + 2] # " "

\* the record's text begins with the version tag and holds an endpoint key
\* with an https url
Acceptable(record) ==
  LET t == Join(record)
  IN /\ t # <<>> /\ Head(t) = "v=scp1"
     /\ \E i \in DOMAIN t : HasUrlAt(t, i)

\* u is the url of the first endpoint key with an https url in the record's
\* text: the scheme and everything up to the next blank
IsUrlOf(u, record) ==
  LET t == Join(record)
  IN \E i \in DOMAIN t :
       /\ HasUrlAt(t, i)
       /\ \A k \in 1..(i - 1) : ~HasUrlAt(t, k)
       /\ Len(u) >= 2
       /\ i + Len(u) <= Len(t)
       /\ u = SubSeq(t, i + 1, i + Len(u))
       /\ \A k \in DOMAIN u : u[k] # " "
       /\ i + Len(u) = Len(t) \/ t[i + Len(u) + 1] = " "

\* C19: tryDNSDiscovery returns an endpoint exactly when some record's text
\* starts with v=scp1 and contains endpoint=<https url>; the endpoint is the
\* url of the first such record; records without the v=scp1 prefix are
\* passed over even when they hold an endpoint key.
C19_TxtAcceptance ==
  \A p \in Procs :
    pc[p] = "done" /\ loc[p].op = "txt"
      => LET recs == loc[p].txt
         IN IF \E n \in DOMAIN recs : Acceptable(recs[n])
              THEN /\ loc[p].result.kind = "endpoint"
                   /\ \E n \in DOMAIN recs :
                        /\ Acceptable(recs[n])
                        /\ \A m \in 1..(n - 1) : ~Acceptable(recs[m])
                        /\ IsUrlOf(loc[p].result.value, recs[n])
              ELSE loc[p].result.kind = "notfound"

\* a record without the prefix but with an endpoint key is passed over and
\* the record after it gives the endpoint
C19_Witness ==
  \E p \in Procs :
    /\ pc[p] = "done" /\ loc[p].op = "txt"
    /\ Len(loc[p].txt) = 2
    /\ ~Acceptable(loc[p].txt[1])
    /\ \E i \in DOMAIN Join(loc[p].txt[1]) : HasUrlAt(Join(loc[p].txt[1]), i)
    /\ Acceptable(loc[p].txt[2])
    /\ loc[p].result.kind = "endpoint"
    /\ IsUrlOf(loc[p].result.value, loc[p].txt[2])

----------------------------------------------------------------------------
(* Claims about the crypto engine, checked under SpecCrypt *)

\* no surrogate stands without its partner
WellFormed(T) ==
  \A i \in DOMAIN T :
    /\ T[i] = "HS" => (i < Len(T) /\ T[i + 1] = "LS")
    /\ T[i] = "LS" => (i > 1 /\ T[i - 1] = "HS")

\* decryptToken threw and gave no plaintext
FailedClosed(l) == l.result.kind = "error" /\ l.plain = Absent

\* C21 as stated: for every token string T, decryptToken(encryptToken(T)) = T
\* under the same master key, and decryptToken of an envelope whose
\* ciphertext or tag was altered fails and returns no plaintext.
C21_RoundTripEveryString ==
  \A p \in Procs :
    pc[p] = "done" /\ loc[p].op = "encrypt"
      => IF loc[p].altered = None
           THEN loc[p].result.kind = "ok" /\ loc[p].plain = Some(loc[p].text)
           ELSE FailedClosed(loc[p])

\* C21 as amended: for every token string T without an unpaired surrogate,
\* decryptToken(encryptToken(T)) = T under the same master key; and for every
\* T, decryptToken of an envelope whose ciphertext or tag was altered fails
\* and returns no plaintext.
C21_RoundTrip ==
  \A p \in Procs :
    pc[p] = "done" /\ loc[p].op = "encrypt"
      => IF loc[p].altered = None
           THEN /\ loc[p].result.kind = "ok"
                /\ WellFormed(loc[p].text) => loc[p].plain = Some(loc[p].text)
           ELSE FailedClosed(loc[p])

\* a string of full length with a surrogate pair came back unchanged
C21_Witness ==
  \E p \in Procs :
    /\ pc[p] = "done" /\ loc[p].op = "encrypt"
    /\ loc[p].altered = None
    /\ Len(loc[p].text) = MaxTextLen
    /\ \E i \in DOMAIN loc[p].text : loc[p].text[i] = "HS"
    /\ WellFormed(loc[p].text)
    /\ loc[p].plain = Some(loc[p].text)

----------------------------------------------------------------------------
(* Claims about start-up, checked under SpecBoot *)

\* main has testEncryption's answer
Tested(p) == loc[p].caller = "main" /\ loc[p].test # Absent

\* C22: the server is started only after the start-up self-test has returned
\* true; when the self-test returns false (it catches every exception) the
\* process exits and the server is never started.
C22_StartAfterSelfTest ==
  /\ server = "started" => \E p \in Procs : Tested(p) /\ The(loc[p].test) = TRUE
  /\ \A p \in Procs :
       Tested(p) /\ The(loc[p].test) = FALSE
         => /\ server # "started"
            /\ pc[p] = "done" => server = "exited"

\* a run whose self-test failed on the key record of the file has exited,
\* the server never started
C22_Witness ==
  \E p \in Procs :
    /\ pc[p] = "done" /\ Tested(p)
    /\ The(loc[p].test) = FALSE
    /\ masterKey # Absent
    /\ server = "exited"

----------------------------------------------------------------------------
(* Claims about the key set-up, checked under SpecKey *)

\* the key of the key record in the file, if the file holds one
PersistedKey == IF disk = Absent THEN Absent ELSE SelectKey(The(disk))

----------------------------------------------------------------------------
(* Claims about the stored tokens, checked under SpecReauth *)

\* the field is an envelope: its tag verifies under the master key, it opens
\* to one of the given tokens and its data is not that token itself
SealedTokenOf(env, tokens) ==
  /\ DecryptToken(env).ok
  /\ DecryptToken(env).token \in tokens
  /\ env.data # DecryptToken(env).token

\* C24: in every reachable state the access-token and refresh-token fields
\* of every stored authorization are envelopes made by encryptToken from the
\* tokens of a token response; authorize and refresh never write a token
\* as it is.
C24_TokensStoredSealed ==
  \A d \in Domains :
    auths[d] # Absent
      => /\ SealedTokenOf(The(auths[d]).access_token_encrypted,
                          {AccessTokenNo(n) : n \in 0 .. MaxIssue})
         /\ SealedTokenOf(The(auths[d]).refresh_token_encrypted,
                          {RefreshTokenNo(n) : n \in 0 .. MaxIssue})

\* a record that authorize wrote and a refresh rewrote
C24_Witness ==
  \E p \in Procs, d \in Domains :
    /\ pc[p] = "done" /\ loc[p].op = "getToken" /\ loc[p].refresh = "ok"
    /\ auths[d] # Absent
    /\ The(auths[d]).updated_at > The(auths[d]).created_at

----------------------------------------------------------------------------
(* Claims about what the agent is shown, checked under SpecInfo *)

\* the names under which a token, sealed or not, is held
TokenFields ==
  {"access_token", "refresh_token", "access_token_encrypted", "refresh_token_encrypted"}

\* every field of r is the column of the same meaning of the stored row
FromOpenColumns(r, row) ==
  /\ DOMAIN r \subseteq {"authorized", "domain", "customer_email", "customer_id", "scopes",
                         "authorized_at", "expires_at"}
  /\ "customer_email" \in DOMAIN r => r.customer_email = row.customer_email
  /\ "customer_id" \in DOMAIN r => r.customer_id = row.customer_id
  /\ "scopes" \in DOMAIN r => r.scopes = row.scopes
  /\ "authorized_at" \in DOMAIN r => r.authorized_at = row.created_at
  /\ "expires_at" \in DOMAIN r => r.expires_at = row.expires_at

\* C25: no result that authorize, check-authorization or revoke returns to
\* the agent, nor what getAuthorizationInfo returns, holds an access or
\* refresh token, sealed or not: the check answers are made of the row's
\* other columns, authorize names the customer's email, revoke nothing.
C25_NoTokenShown ==
  \A p \in Procs :
    pc[p] = "done"
      => /\ loc[p].op = "check"
              => /\ DOMAIN The(loc[p].info) \cap TokenFields = {}
                 /\ The(loc[p].info).authorized = (loc[p].auth # Absent)
                 /\ loc[p].auth # Absent
                      => /\ FromOpenColumns(The(loc[p].info), The(loc[p].auth))
                         /\ loc[p].result.kind = "info"
                         /\ DOMAIN loc[p].result.value \cap TokenFields = {}
                         /\ FromOpenColumns(loc[p].result.value, The(loc[p].auth))
         /\ loc[p].op = "authorize" /\ loc[p].result.kind # "error"
              => loc[p].result.value \in Emails
         /\ loc[p].op = "revoke" /\ loc[p].result.kind # "error"
              => loc[p].result.value = None

\* check-authorization answered for a domain that holds a record
C25_Witness ==
  \E p \in Procs :
    /\ pc[p] = "done" /\ loc[p].op = "check"
    /\ loc[p].result.kind = "info"
    /\ auths[loc[p].dom] # Absent
    /\ loc[p].result.value.customer_email = The(auths[loc[p].dom]).customer_email

----------------------------------------------------------------------------
(* Claims about the database module, checked under SpecStore *)

\* the databases there are: those in memory and the file's image
Databases == {handles[h] : h \in DOMAIN handles} \cup disk

\* the rows of a table that carry a domain
RowsOf(rows, col, d) == {r \in rows : r[col] = d}

\* C26: after any sequence of storeAuthorization, updateAuthorizationTokens,
\* deleteAuthorization and cacheEndpoint there is at most one authorization
\* and at most one cache entry for a domain, in memory and in the file; a
\* write to a domain that has a row keeps that row's id and created_at,
\* replaces its other columns and adds no row.
C26_OneRowPerDomain ==
  [][/\ \A D \in Databases', d \in Domains :
          /\ Cardinality(RowsOf(D.auths, "merchant_domain", d)) <= 1
          /\ Cardinality(RowsOf(D.cache, "domain", d)) <= 1
     /\ \A p \in Procs :
          (pc[p] = "opened" /\ pc'[p] = "done" /\ loc'[p].result.kind = "ok"
             /\ loc[p].op = "storeAuthorization")
            => LET h    == The(loc[p].database)
                   auth == The(loc[p].arg)
                   old  == RowsOf(handles[h].auths, "merchant_domain", auth.merchant_domain)
                   new  == RowsOf(handles'[h].auths, "merchant_domain", auth.merchant_domain)
               IN /\ Cardinality(new) = 1
                  /\ \A r \in new :
                       /\ [f \in (DOMAIN auth) \ {"created_at"} |-> r[f]]
                            = [f \in (DOMAIN auth) \ {"created_at"} |-> auth[f]]
                       /\ \A o \in old : r.id = o.id /\ r.created_at = o.created_at
                  /\ old # {} => Cardinality(handles'[h].auths) = Cardinality(handles[h].auths)
     /\ \A p \in Procs :
          (pc[p] = "opened" /\ pc'[p] = "done" /\ loc'[p].result.kind = "ok"
             /\ loc[p].op = "cacheEndpoint")
            => LET h   == The(loc[p].database)
                   c   == The(loc[p].arg)
                   old == RowsOf(handles[h].cache, "domain", c.domain)
                   new == RowsOf(handles'[h].cache, "domain", c.domain)
               IN /\ Cardinality(new) = 1
                  /\ \A r \in new :
                       /\ [f \in DOMAIN c |-> r[f]] = c
                       /\ \A o \in old : r.id = o.id
                  /\ old # {} => Cardinality(handles'[h].cache) = Cardinality(handles[h].cache)
    ]_vars

\* a domain's authorization was written a second time with other values and
\* a cache entry of the domain is in the file as well
C26_Witness ==
  \E p \in Procs, D \in Databases :
    /\ pc[p] = "done" /\ loc[p].op = "storeAuthorization" /\ loc[p].result.kind = "ok"
    /\ \E r \in D.auths :
         /\ r.merchant_domain = The(loc[p].arg).merchant_domain
         /\ r.updated_at # r.created_at
    /\ disk # Absent /\ The(disk).cache # {}


\* a store function returns to its caller in this step
Returns(p) ==
  /\ pc[p] = "opened" /\ loc[p].op # "getEncryptionKey"
  /\ pc'[p] \in {"done", "keystored"} /\ loc'[p].result.kind = "ok"

\* some call asks to delete the domain's authorization
AskedToDelete(d) == \E call \in StoreCalls : call[1] = "deleteAuthorization" /\ call[2] = d

----------------------------------------------------------------------------
(* Claims about what a call leaves alone, checked under SpecFrame *)

\* some call on the domain is running or starts in this step
Addressed(d) == \E p \in Procs : loc[p].dom = d \/ loc'[p].dom = d

\* C29: an operation addressed to one domain (authorize, getValidAccessToken
\* with its refresh, revoke, discovery) leaves the authorization and the
\* cache entry of every other domain as they are.
C29_OtherDomainsUntouched ==
  [][\A d \in Domains :
       ~Addressed(d) => auths'[d] = auths[d] /\ cache'[d] = cache[d]]_vars

\* a revoke on one domain has deleted its record, an earlier discovery has
\* cached its endpoint, and the other domain still holds both its rows
C29_Witness ==
  \E p \in Procs, d \in Domains :
    /\ pc[p] = "done" /\ loc[p].op = "revoke" /\ loc[p].result.kind = "revoked"
    /\ auths[loc[p].dom] = Absent
    /\ cache[loc[p].dom] # Absent /\ The(cache[loc[p].dom]).discovered_at > 0
    /\ d # loc[p].dom
    /\ auths[d] # Absent /\ cache[d] # Absent

----------------------------------------------------------------------------
(* Claims about cancellation, checked under SpecCancel *)

\* C30: once the caller has cancelled an authorization that is polling, the
\* call sends no further poll request, whatever is left of its attempt cap.
C30_NoPollAfterCancel ==
  [][\A p \in Procs :
       loc[p].aborted /\ loc'[p].aborted => loc'[p].polls = loc[p].polls]_vars

----------------------------------------------------------------------------
(* Claims about the configured attempt cap, checked under SpecCfg *)

\* C31: the polling loop an authorize call starts is capped by the
\* configured max_poll_attempts: the call never sends more poll requests
\* than the configuration allows.
C31_ConfiguredCapApplies ==
  \A p \in Procs :
    loc[p].op = "authorize" => loc[p].polls <= max_poll_attempts

----------------------------------------------------------------------------
(* Claims about the order of one authorization flow, checked under SpecReauth *)

\* the last poll answer a call has received
LastSeen(l) == l.seen[Len(l.seen)]

\* C32: in an authorize call the initiation request precedes every poll; the
\* exchange request is sent only after a poll was answered authorized with a
\* code, after which no poll follows, and it carries that code and the
\* verifier of the challenge this call's initiation request carried; the
\* record is written only by a call whose exchange succeeded.
C32_InitiatePollExchange ==
  \A p \in Procs :
    loc[p].op = "authorize" =>
      /\ loc[p].polls > 0 => loc[p].challenge # 0
      /\ loc[p].sentCode # None =>
           /\ loc[p].polls > 0 /\ Len(loc[p].seen) = loc[p].polls
           /\ PollOutcome(LastSeen(loc[p])) = "authorized"
           /\ loc[p].sentCode = LastSeen(loc[p]).code
           /\ GenerateCodeChallenge(loc[p].sentVerifier) = loc[p].challenge
      /\ loc[p].nWrites > 0 =>
           /\ loc[p].sentCode # None
           /\ pc[p] = "done" /\ loc[p].result.kind = "connected"

\* two flows are past their exchange requests at once, one has written its
\* record after being asked to wait once, the other is still to be answered
C32_Witness ==
  \E p, q \in Procs :
    /\ p # q
    /\ loc[p].op = "authorize" /\ loc[p].nWrites = 1 /\ loc[p].polls = 2
    /\ loc[p].sentCode = "K"
    /\ loc[q].op = "authorize" /\ pc[q] = "a_exchange"
    /\ loc[q].sentVerifier # loc[p].sentVerifier

----------------------------------------------------------------------------
(* Claims about failed authorizations, checked under SpecFail *)

\* the call of p is an authorize call that ends connected in this step
Connects(p) ==
  /\ pc[p] # "done" /\ pc'[p] = "done"
  /\ loc'[p].op = "authorize" /\ loc'[p].result.kind = "connected"

\* C33: an authorize call that ends in a failure has left the records as
\* they were: no step of an authorize call but the one that ends it
\* connected changes a record, and a call that ends otherwise has written
\* nothing.
C33_FailureLeavesRecord ==
  [][\A p \in Procs :
       loc'[p].op = "authorize" /\ loc'[p] # loc[p] /\ ~Connects(p)
         => /\ auths' = auths
            /\ pc'[p] = "done" => loc'[p].nWrites = 0]_vars

\* a re-authorization has timed out at the attempt cap and the record of
\* the earlier run is still there
C33_Witness ==
  \E p \in Procs :
    /\ pc[p] = "done" /\ loc[p].op = "authorize"
    /\ loc[p].result.kind = "error"
    /\ loc[p].polls = DEFAULT_MAX_POLL_ATTEMPTS
    /\ Len(loc[p].seen) = DEFAULT_MAX_POLL_ATTEMPTS
    /\ PollOutcome(LastSeen(loc[p])) = "pending"
    /\ auths[loc[p].dom] \in {Some(r) : r \in StoredRows}

----------------------------------------------------------------------------
(* Claims about the data tools, checked under SpecData *)

\* C34: a getValidAccessToken call or a data tool called for a domain that
\* has no record ends at once with a not-authorized error: it has sent no
\* request and written nothing, and the store is as it was.
C34_NoRecordNoRequest ==
  [][\A p \in Procs :
       /\ pc[p] = "idle"
       /\ loc'[p].op \in DataTools \cup {"getToken"}
       /\ auths[loc'[p].dom] = Absent
       => /\ pc'[p] = "done"
          /\ loc'[p].result = [kind |-> "error", value |-> "NotAuthorized"]
          /\ loc'[p].nNet = 0 /\ loc'[p].nWrites = 0
          /\ auths' = auths /\ cache' = cache]_vars

\* a data tool has been refused on a domain without a record, while the
\* other domain holds one
C34_Witness ==
  \E p \in Procs, d \in Domains :
    /\ pc[p] = "done" /\ loc[p].op = "createIntent"
    /\ loc[p].result.kind = "error" /\ loc[p].auth = Absent
    /\ auths[loc[p].dom] = Absent
    /\ auths[d] # Absent

----------------------------------------------------------------------------
(* Claims about what a refresh writes, checked under SpecRefresh *)

\* the call of p has its refresh answered in this step
Refreshed(p) == loc[p].refresh # "ok" /\ loc'[p].refresh = "ok"

\* the columns updateAuthorizationTokens sets, put back to those of old
WithTokensOf(row, old) ==
  [row EXCEPT !.access_token_encrypted = old.access_token_encrypted,
              !.refresh_token_encrypted = old.refresh_token_encrypted,
              !.expires_at = old.expires_at,
              !.updated_at = old.updated_at]

\* C35: a refresh that succeeds changes the two encrypted tokens, expires_at
\* and updated_at of the domain's record and nothing else of it, whatever
\* scope, email or customer id the refresh response reports; the other
\* domain's record is not touched.
C35_RefreshWritesTokensOnly ==
  [][\A p \in Procs :
       Refreshed(p) =>
         \A d \in Domains :
           IF d = loc'[p].dom /\ auths[d] # Absent
             THEN /\ auths'[d] # Absent
                  /\ WithTokensOf(The(auths'[d]), The(auths[d])) = The(auths[d])
                  /\ The(auths'[d]).updated_at = now
                  /\ The(auths'[d]).expires_at = ExpiresAt(now, loc'[p].lifetime)
             ELSE auths'[d] = auths[d]]_vars

\* a refresh has succeeded whose response named another customer and
\* another scope than the record, which holds the new tokens
C35_Witness ==
  \E p \in Procs :
    /\ pc[p] = "done" /\ loc[p].op = "getToken" /\ loc[p].refresh = "ok"
    /\ loc[p].reported # Absent /\ auths[loc[p].dom] # Absent
    /\ The(loc[p].reported).email # The(auths[loc[p].dom]).customer_email
    /\ The(loc[p].reported).scope # The(auths[loc[p].dom]).scopes
    /\ The(loc[p].reported).customer_id # The(auths[loc[p].dom]).customer_id
    /\ The(auths[loc[p].dom]).access_token_encrypted # The(loc[p].auth).access_token_encrypted
    /\ The(auths[loc[p].dom]).updated_at > The(auths[loc[p].dom]).created_at

----------------------------------------------------------------------------
(* Claims about the age of cache entries, checked under SpecDisc *)

----------------------------------------------------------------------------
(* Claims about the stored identity, checked under SpecAuth *)

\* C37: when an authorize call has ended connected, the customer email of
\* the domain's record is the email the caller passed, the one the same call
\* made again is compared with.
C37_StoredEmailIsCallers ==
  \A p \in Procs :
    /\ pc[p] = "done" /\ loc[p].op = "authorize"
    /\ loc[p].result.kind = "connected"
    /\ auths[loc[p].dom] # Absent
    => The(auths[loc[p].dom]).customer_email = loc[p].email

----------------------------------------------------------------------------
(* Claims about concurrent authorizations, checked under SpecRace *)

\* C38: however two authorize calls on one domain with different emails
\* interleave, the customer email of a record that stays in the store never
\* changes to another email.
C38_NoIdentitySwitch ==
  [][\A d \in Domains :
       auths[d] # Absent /\ auths'[d] # Absent
         => The(auths'[d]).customer_email = The(auths[d]).customer_email]_vars

----------------------------------------------------------------------------
(* Claims about a revoke during a refresh, checked under SpecRev *)

\* C39: when the refresh of a getValidAccessToken call is answered after a
\* revoke has deleted the domain's record, the record stays absent and the
\* call ends with an error instead of a token.
C39_RefreshAfterRevoke ==
  [][\A p \in Procs :
       /\ loc[p].op = "getToken" /\ Refreshed(p)
       /\ auths[loc[p].dom] = Absent
       => /\ auths'[loc[p].dom] = Absent
          /\ pc'[p] = "done"
          /\ loc'[p].result.kind = "error"]_vars

\* a revoke has deleted the record a token call had read, and the call's
\* refresh, answered with new tokens afterwards, has ended in an error
C39_Witness ==
  \E p, q \in Procs :
    /\ pc[p] = "done" /\ loc[p].op = "getToken" /\ loc[p].refresh = "ok"
    /\ loc[p].auth # Absent /\ loc[p].updated = Absent
    /\ loc[p].result.kind = "error"
    /\ loc[q].op = "revoke" /\ pc[q] = "done" /\ loc[q].dom = loc[p].dom
    /\ loc[q].result.kind = "revoked"
    /\ auths[loc[p].dom] = Absent

----------------------------------------------------------------------------
(* Claims about the email validation, checked under SpecAuth *)

============================================================================
